---------------------------- MODULE Spec2Model ----------------------------
(***************************************************************************)
(* Frequency acquisition engine of the OT4 display firmware (freq.cpp):    *)
(* Timer1 input capture with a software epoch counter, the capture and     *)
(* overflow interrupt handlers, and the foreground freq_read().            *)
(*                                                                         *)
(* Number representation.  TLC integers are 32-bit signed, so              *)
(*   - a uint32_t is a pair <<hi, lo>> of 16-bit words (the capture ISR    *)
(*     itself builds s_icr32 as (ovf << 16) | icr);                        *)
(*   - a float is a pair <<i, fr>>: integer part i and fraction fr in      *)
(*     units of 2^-21.  Every value the code computes (quotients in        *)
(*     30..10000 Hz, their differences, a quarter of a difference) is a    *)
(*     multiple of 2^-21, and every operation is rounded to the 24-bit     *)
(*     significand of IEEE-754 binary32, ties to even.  NaN is <<-1, 0>>.  *)
(***************************************************************************)
EXTENDS Integers, Sequences, FiniteSets, TLC

(***************************************************************************)
(* Program constants                                                       *)
(***************************************************************************)
\* freq.cpp:39  F_CPU / TIMER1_PRESCALER at 16 MHz
TIMER1_CLK_HZ == 2000000
\* freq.cpp:42
FREQ_MIN_HZ == 30
\* freq.cpp:43
FREQ_MAX_HZ == 10000
\* freq.cpp:46  (uint32_t)((float)TIMER1_CLK_HZ / FREQ_MAX_HZ): the quotient is exact
TICKS_MIN == TIMER1_CLK_HZ \div FREQ_MAX_HZ
\* freq.cpp:47  (uint32_t)((float)TIMER1_CLK_HZ / FREQ_MIN_HZ): the cast truncates
TICKS_MAX == TIMER1_CLK_HZ \div FREQ_MIN_HZ
\* freq.cpp:50
NO_SIGNAL_TIMEOUT_MS == 120
\* freq.cpp:53
EMA_NUM == 1
\* freq.cpp:54
EMA_DEN == 4
\* freq.cpp:62  uint16_t: the range of TCNT1, ICR1 and s_ovf
WORD == 65536
\* Timer1 ticks in one millisecond of millis()
TICKS_PER_MS == TIMER1_CLK_HZ \div 1000
\* freq.cpp:189  icr < 0x8000
ICR_HALF == 32768

(***************************************************************************)
(* uint32_t arithmetic on word pairs                                       *)
(***************************************************************************)
U32(hi, lo) == <<hi, lo>>

U32Zero == <<0, 0>>

\* n is a natural number below 2^31
U32OfNat(n) == <<n \div WORD, n % WORD>>

\* a + b modulo 2^32
U32Add(a, b) ==
    LET lo == a[2] + b[2]
    IN  <<(a[1] + b[1] + lo \div WORD) % WORD, lo % WORD>>

\* a - b modulo 2^32 (unsigned subtraction)
U32Sub(a, b) ==
    IF a[2] >= b[2]
    THEN <<(a[1] - b[1] + WORD) % WORD, a[2] - b[2]>>
    ELSE <<(a[1] - b[1] - 1 + 2 * WORD) % WORD, a[2] - b[2] + WORD>>

U32Le(a, b) == a[1] < b[1] \/ (a[1] = b[1] /\ a[2] <= b[2])

U32Lt(a, b) == a[1] < b[1] \/ (a[1] = b[1] /\ a[2] < b[2])

(***************************************************************************)
(* binary32 arithmetic on the values freq_read computes                    *)
(***************************************************************************)
\* one unit of the fraction is 2^-21
FRAC == 2048 * 1024

NaN == <<-1, 0>>

FZero == <<0, 0>>

\* isfinite() of <math.h>
isfinite(x) == x[1] >= 0

MagLe(a, b) == a[1] < b[1] \/ (a[1] = b[1] /\ a[2] <= b[2])

MagAdd(a, b) ==
    LET s == a[2] + b[2]
    IN  <<a[1] + b[1] + s \div FRAC, s % FRAC>>

\* a - b for a >= b
MagSub(a, b) ==
    IF a[2] >= b[2]
    THEN <<a[1] - b[1], a[2] - b[2]>>
    ELSE <<a[1] - b[1] - 1, a[2] + FRAC - b[2]>>

\* |a - b|
MagDist(a, b) == IF MagLe(b, a) THEN MagSub(a, b) ELSE MagSub(b, a)

RECURSIVE Pow2(_)
Pow2(n) == IF n = 0 THEN 1 ELSE 2 * Pow2(n - 1)

RECURSIVE Log2Floor(_)
Log2Floor(n) == IF n < 2 THEN 0 ELSE 1 + Log2Floor(n \div 2)

\* The spacing of binary32 values, in fraction units, in the binade of a
\* magnitude with integer part i >= 8: 2^(e-23) * 2^21 with e = floor(log2 i).
Ulp(i) == Pow2(Log2Floor(i) - 2)

\* Round a magnitude <<i, fr>> (plus, when sticky, a positive amount below one
\* fraction unit) to the nearest binary32 value, ties to even.  Below 8 every
\* multiple of 2^-21 has at most 24 significant bits and is kept.
Round24(m, sticky) ==
    IF m[1] < 8 THEN m
    ELSE LET u    == Ulp(m[1])
             low  == m[2] % u
             base == m[2] - low
             half == u \div 2
             up   == \/ low > half
                     \/ low = half /\ sticky
                     \/ low = half /\ ~sticky /\ (base \div u) % 2 = 1
             fr   == IF up THEN base + u ELSE base
         IN  IF fr = FRAC THEN <<m[1] + 1, 0>> ELSE <<m[1], fr>>

\* (float)TIMER1_CLK_HZ / (float)ticks for 1 <= ticks <= 250000 (quotient >= 8):
\* long division, 21 fraction bits in three steps of 7, then Round24.
FDivClk(ticks) ==
    LET q  == TIMER1_CLK_HZ \div ticks
        r0 == TIMER1_CLK_HZ % ticks
        f1 == (r0 * 128) \div ticks
        r1 == (r0 * 128) % ticks
        f2 == (r1 * 128) \div ticks
        r2 == (r1 * 128) % ticks
        f3 == (r2 * 128) \div ticks
        r3 == (r2 * 128) % ticks
    IN  Round24(<<q, f1 * 16384 + f2 * 128 + f3>>, r3 # 0)

\* Mutant of MagMulAlpha: alpha = 1/2.
MagMulHalf(m) == <<m[1] \div 2, ((m[1] % 2) * FRAC + m[2]) \div 2>>

\* m * ((float)EMA_NUM / (float)EMA_DEN): the factor 1/4 is a power of two, so
\* the product is exact; m is a multiple of 2^-19 here.
MagMulAlpha(m) ==
    LET t == (m[1] % EMA_DEN) * FRAC + m[2]
    IN  <<(m[1] * EMA_NUM) \div EMA_DEN, (t * EMA_NUM) \div EMA_DEN>>

\* s_freq_ema += (f - s_freq_ema) * ((float)EMA_NUM / (float)EMA_DEN)
EmaStep(ema, f) ==
    LET up   == MagLe(ema, f)
        d    == Round24(MagDist(f, ema), FALSE)
        step == MagMulAlpha(d)
    IN  IF up THEN Round24(MagAdd(ema, step), FALSE)
        ELSE Round24(MagSub(ema, step), FALSE)


(***************************************************************************)
(* Bounds of the model                                                     *)
(***************************************************************************)
\* timer advances in one behaviour of Spec
MaxTicks == 2
\* rising edges on ICP1 in one behaviour
MaxEdges == 2
\* freq_read calls in one behaviour
MaxPolls == 2
\* rising edges in one behaviour of SpecPoll
MaxPollEdges == 4
\* freq_read calls in one behaviour of SpecPoll
MaxPollCalls == 4
\* silent stretches in one behaviour of SpecPoll
MaxMsSteps == 1
\* rising edges, and freq_read calls, in one behaviour of SpecSteady
MaxSteadyEdges == 60

\* Timer1 ticks that pass in one timer advance: a half period and one tick
\* less, so that a handler may run just inside or just outside half a period
\* after its event.
TickSteps == {ICR_HALF - 1, ICR_HALF}

\* Ticks from freq_init to the first rising edge in SpecPoll: an edge while
\* the timer still reads 0, and a later one.
FirstTicks == {0, TICKS_MIN}

\* Ticks from one rising edge to the next in SpecPoll: the deltas at and next
\* to both ends of the band.
Deltas == {TICKS_MIN - 1, TICKS_MIN, TICKS_MAX, TICKS_MAX + 1}

\* Milliseconds that pass in one silent stretch: the timeout window exactly
\* and one millisecond more
MsSteps == {NO_SIGNAL_TIMEOUT_MS, NO_SIGNAL_TIMEOUT_MS + 1}

\* Ticks from one rising edge to the next in SpecSteady: both ends of the
\* band and a neighbour of each (an octave below 10 kHz, one tick above 30 Hz)
SteadyDeltas == {TICKS_MIN, 2 * TICKS_MIN, TICKS_MAX - 1, TICKS_MAX}

\* Timer periods that pass in one quiet stretch: all but one of the 2^16
\* values of the epoch counter, so that s_ovf is about to wrap.
EpochSkips == {WORD - 1}

(***************************************************************************)
(* State                                                                   *)
(***************************************************************************)
VARIABLES
    \* Timer1 and the interrupt unit
    TCNT1,          \* 16-bit counter
    ICR1,           \* input capture register: TCNT1 latched at the last edge
    TOV1,           \* TIFR1.TOV1: an overflow is pending
    ICF1,           \* TIFR1.ICF1: a capture is pending
    sreg_I,         \* SREG.I: interrupts are enabled
    \* module state of freq.cpp
    s_ovf, s_icr32, s_newCap,
    s_prevIcr32, s_freq_ema, s_freq_raw, s_lastOkMs,
    \* millis() of the Arduino core, and the Timer1 ticks into its millisecond
    millis, subMs,
    \* the frame of freq_read
    pc, cap, have, sreg_save,
    \* history (not program state)
    epochs,         \* timer overflows since freq_init (not reduced mod 2^16)
    edgeEpoch,      \* epochs at the last edge
    capAge,         \* ticks since the oldest unserved edge, capped at ICR_HALF
    stored,         \* one record per run of the capture handler
    fetch,          \* which sample each step of the last atomic block saw
    consumed,       \* one record per sample freq_read consumed
    accepted,       \* the in-band deltas accepted since freq_init
    call,           \* the last completed freq_read call
    used,           \* how much of each bound the behaviour has used
    lim,            \* the bounds of the behaviour
    \* the display driver object of HT1635.cpp
    tuner_view_mode,    \* _tuner_view_mode
    memory_pointer,     \* _memory_pointer
    bitmap_buffer,      \* _bitmap_buffer[40]
    s_prev_col, s_prev_note_idx, s_prev_alt, s_prev_octave,
    result,             \* static char result[6] of frequency_to_note
    \* the display device
    ram,            \* the 40 bytes of device RAM behind the five modules
    \* history of the display (not program state)
    bus,            \* the data transmissions of the last display operation
    pass,           \* the last display operation and what it started from
    probe,          \* the last direct call of a method and what it returned
    \* the user interface of display_main.cpp
    display_status, \* _display_status: the page shown
    theremin_state,             \* _theremin_state: the mirrored state
    parameter_display_status,   \* _parameter_display_status
    parameter_value,            \* _parameter_value
    concert_reference_a,        \* _concert_reference_a, a binary32 pattern
    blink_setting,              \* _blink_setting of the driver object
    tuner_view_update_old_tick, parameter_view_update_old_tick,
    loop_ms,        \* millis() as the last iteration of loop() read it
    board_pc,       \* the position in setup() and loop()
    wire_begun,     \* Wire.begin() has run
    \* the persistent memory and the serial line
    eeprom,         \* the first five bytes of the EEPROM
    to_theremin,    \* bytes written by the display, not yet read
    to_display,     \* bytes written by the instrument, not yet read
    \* the instrument, ui.cpp
    instrument_state,   \* _theremin_state of the instrument
    button_state,       \* _button_state of the instrument
    \* history of the user interface (not program state)
    ui_event        \* the byte an iteration of loop() has taken, and the
                    \* message shown last

hwVars    == <<TCNT1, ICR1, TOV1, ICF1>>
isrVars   == <<s_ovf, s_icr32, s_newCap>>
fgVars    == <<s_prevIcr32, s_freq_ema, s_freq_raw, s_lastOkMs>>
frameVars == <<pc, cap, have, sreg_save>>
histVars  == <<epochs, edgeEpoch, capAge, stored>>
pollHist  == <<fetch, consumed, accepted, call>>
diffVars  == <<s_prev_col, s_prev_note_idx, s_prev_alt, s_prev_octave>>
uiVars    == <<display_status>>
loopVars  == <<theremin_state, parameter_display_status, parameter_value,
               blink_setting, tuner_view_update_old_tick,
               parameter_view_update_old_tick, loop_ms>>
settingVars == <<concert_reference_a, eeprom>>
lineVars  == <<to_theremin, to_display, instrument_state, button_state>>
boardVars == <<loopVars, settingVars, lineVars, board_pc, wire_begun, ui_event>>
viewVars  == <<tuner_view_mode, memory_pointer, bitmap_buffer, diffVars,
               result, ram, bus, pass, probe, uiVars, boardVars>>
vars == <<hwVars, sreg_I, isrVars, fgVars, millis, subMs, frameVars, histVars,
          pollHist, used, lim, viewVars>>

NoCall ==
    [n |-> 0, have |-> FALSE, cap |-> U32Zero, primed |-> FALSE,
     ticks |-> U32Zero, inBand |-> FALSE, nth |-> 0, accBefore |-> 0,
     prevOld |-> U32Zero, emaOld |-> NaN, rawOld |-> NaN,
     okOld |-> U32Zero, now |-> U32Zero, ret |-> NaN]

\* freq_init(): Timer1 stopped, cleared and restarted, flags cleared, both
\* interrupts enabled, module state reset, s_lastOkMs = millis().
Start ==
    /\ TCNT1 = 0 /\ ICR1 = 0 /\ TOV1 = FALSE /\ ICF1 = FALSE
    /\ sreg_I = TRUE
    /\ s_ovf = 0 /\ s_icr32 = U32Zero /\ s_newCap = FALSE
    /\ s_prevIcr32 = U32Zero /\ s_freq_ema = NaN /\ s_freq_raw = NaN
    /\ millis = U32Zero /\ subMs = 0 /\ s_lastOkMs = millis
    /\ pc = "idle" /\ cap = U32Zero /\ have = FALSE /\ sreg_save = TRUE
    /\ epochs = 0 /\ edgeEpoch = 0 /\ capAge = 0 /\ stored = <<>>
    /\ fetch = [lo |-> 0, hi |-> 0, clr |-> 0]
    /\ consumed = <<>> /\ accepted = <<>> /\ call = NoCall
    /\ used = [tick |-> 0, edge |-> 0, poll |-> 0, skip |-> FALSE, ms |-> 0]

\* The display object as constructed: the member initialisers of the class
\* and the static initialisers of the cursor and label memory.
HT_RAM_LAST_ADDRESS == 40
NO_COL == -1
NO_NOTE == 255
NO_ALT == 99
NO_OCTAVE == 99

\* A binary32 value is kept as the four bytes it has in memory, the lowest
\* first: 440.0f is 0x43DC0000.
CONCERT_A_DEFAULT == <<0, 0, 220, 67>>
\* Erased EEPROM cells read 0xFF.
ERASED == 255
\* msg: the byte of the message shown last; since: when it was shown
NoEvent == [op |-> "none", msg |-> -1, since |-> 0]

\* The display board as its static initialisers leave it, loop() about to be
\* entered; the instrument at power-on.
BoardUp ==
    /\ theremin_state = "muted" /\ parameter_display_status = "none"
    /\ parameter_value = 0 /\ concert_reference_a = CONCERT_A_DEFAULT
    /\ blink_setting = "BLINK_OFF"
    /\ tuner_view_update_old_tick = 0 /\ parameter_view_update_old_tick = 0
    /\ loop_ms = 0
    /\ board_pc = "loop" /\ wire_begun = TRUE
    /\ eeprom = [a \in 0 .. 4 |-> ERASED]
    /\ to_theremin = <<>> /\ to_display = <<>>
    /\ instrument_state = "muted" /\ button_state = "button_state_t_released"
    /\ ui_event = NoEvent

NoPass == [op |-> "none"]
NoProbe == [op |-> "none"]

Constructed ==
    /\ tuner_view_mode = "piano_view"
    /\ memory_pointer = 0
    /\ bitmap_buffer = [i \in 0 .. HT_RAM_LAST_ADDRESS - 1 |-> 0]
    /\ s_prev_col = NO_COL /\ s_prev_note_idx = NO_NOTE
    /\ s_prev_alt = NO_ALT /\ s_prev_octave = NO_OCTAVE
    /\ result = ""
    /\ ram = [i \in 0 .. HT_RAM_LAST_ADDRESS - 1 |-> 0]
    /\ bus = <<>> /\ pass = NoPass /\ probe = NoProbe
    /\ display_status = "tuner_view"
    /\ BoardUp

Init ==
    /\ Start /\ Constructed
    /\ lim = [tick |-> MaxTicks, edge |-> MaxEdges, poll |-> MaxPolls, ms |-> 0]

(***************************************************************************)
(* Timer1 hardware                                                         *)
(***************************************************************************)
Min(a, b) == IF a <= b THEN a ELSE b

\* millis() after k whole timer periods and d more ticks have passed.  Timer1
\* and millis() run from the same clock; a period of 65536 ticks is 32 ms and
\* 1536 ticks.
MillisAfter(k, d) ==
    U32Add(millis, U32OfNat(32 * k + (1536 * k + d + subMs) \div TICKS_PER_MS))

SubMsAfter(k, d) == (1536 * k + d + subMs) % TICKS_PER_MS

\* The foreground is between two calls of freq_read.  A call lasts a few
\* microseconds.  To the software a timer advance or an edge that falls
\* inside the atomic block is the same as one just before it, and one that
\* falls into the rest of the call, which touches no state a handler
\* touches, is the same as one just after the call; the handlers themselves
\* run at every point of the call where interrupts are enabled.
BetweenCalls == pc = "idle"

\* d timer ticks pass.  A second overflow while TOV1 is still pending would
\* lose an epoch; it needs interrupts to stay off for a whole period (32 ms)
\* and is left out.
Tick(d) ==
    /\ used.tick < lim.tick
    /\ BetweenCalls
    /\ ~(TOV1 /\ TCNT1 + d >= WORD)
    /\ TCNT1' = (TCNT1 + d) % WORD
    /\ TOV1' = (TOV1 \/ TCNT1 + d >= WORD)
    /\ epochs' = epochs + (IF TCNT1 + d >= WORD THEN 1 ELSE 0)
    /\ capAge' = IF ICF1 THEN Min(capAge + d, ICR_HALF) ELSE 0
    /\ millis' = MillisAfter(0, d)
    /\ subMs' = SubMsAfter(0, d)
    /\ used' = [used EXCEPT !.tick = @ + 1]
    /\ UNCHANGED <<ICR1, ICF1, sreg_I, isrVars, fgVars, frameVars,
                   edgeEpoch, stored, pollHist, lim, viewVars>>

\* A rising edge on ICP1: the capture unit latches TCNT1 and raises ICF1.
Edge ==
    /\ used.edge < lim.edge
    /\ BetweenCalls
    /\ ICR1' = TCNT1
    /\ ICF1' = TRUE
    /\ edgeEpoch' = epochs
    /\ capAge' = IF ICF1 THEN capAge ELSE 0
    /\ used' = [used EXCEPT !.edge = @ + 1]
    /\ UNCHANGED <<TCNT1, TOV1, sreg_I, isrVars, fgVars, millis, subMs, frameVars,
                   epochs, stored, pollHist, lim, viewVars>>

(***************************************************************************)
(* Interrupt handlers                                                      *)
(***************************************************************************)
\* Mutant of CaptEpoch: the pending overflow is not looked at.
CaptEpochNoRace(ovf, tov, icr) == ovf

\* The epoch the capture handler attributes to a capture: ovf++ when an
\* overflow is pending and the latched value is in the lower half.
CaptEpoch(ovf, tov, icr) ==
    IF tov /\ icr < ICR_HALF THEN (ovf + 1) % WORD ELSE ovf

\* Both handlers ran within half a timer period of their events.
HandlersOnTime == capAge < ICR_HALF /\ (TOV1 => TCNT1 < ICR_HALF)

\* ISR(TIMER1_CAPT_vect).  The hardware clears ICF1 when the vector is taken.
CaptISR ==
    /\ ICF1 /\ sreg_I
    /\ s_icr32' = U32(CaptEpoch(s_ovf, TOV1, ICR1), ICR1)
    /\ s_newCap' = TRUE
    /\ ICF1' = FALSE
    /\ capAge' = 0
    /\ stored' = Append(stored, [val |-> s_icr32', epoch |-> edgeEpoch,
                                 icr |-> ICR1, onTime |-> HandlersOnTime])
    /\ UNCHANGED <<TCNT1, ICR1, TOV1, sreg_I, s_ovf, fgVars, millis, subMs,
                   frameVars, epochs, edgeEpoch, pollHist, used, lim, viewVars>>

\* ISR(TIMER1_OVF_vect).  The capture vector has the lower number, so a pending
\* capture is served first.
OvfISR ==
    /\ TOV1 /\ sreg_I /\ ~ICF1
    /\ s_ovf' = (s_ovf + 1) % WORD
    /\ TOV1' = FALSE
    /\ UNCHANGED <<TCNT1, ICR1, ICF1, sreg_I, s_icr32, s_newCap, fgVars,
                   millis, subMs, frameVars, histVars, pollHist, used, lim, viewVars>>

\* The input stays silent for k whole timer periods after freq_init, every
\* overflow served at once: k times (Tick up to the overflow, OvfISR), with
\* polls that find no capture.  A period is 65536 ticks of 0.5 us, 32.768 ms.
QuietEpochs(k) ==
    /\ ~used.skip
    /\ used.tick = 0 /\ used.edge = 0 /\ used.poll = 0 /\ used.ms = 0
    /\ BetweenCalls
    /\ ~TOV1 /\ ~ICF1 /\ sreg_I
    /\ s_ovf' = (s_ovf + k) % WORD
    /\ epochs' = epochs + k
    /\ millis' = MillisAfter(k, 0)
    /\ subMs' = SubMsAfter(k, 0)
    /\ used' = [used EXCEPT !.skip = TRUE]
    /\ UNCHANGED <<hwVars, sreg_I, s_icr32, s_newCap, fgVars, frameVars,
                   edgeEpoch, capAge, stored, pollHist, lim, viewVars>>

(***************************************************************************)
(* freq_read()                                                             *)
(***************************************************************************)
\* Mutant of AtomicBlockI: no cli(), the block runs with SREG.I as it was.
AtomicBlockOpen == sreg_I

\* ATOMIC_BLOCK(ATOMIC_RESTORESTATE): SREG is saved and cli() clears SREG.I.
AtomicBlockI == FALSE

\* Mutant of ClearedNewCap: the flag is left set.
NewCapLeftSet == TRUE

\* s_newCap = false
ClearedNewCap == FALSE

\* s_prevIcr32 == 0: no capture has primed the baseline
BaselineUnset(prev) == prev = U32Zero

\* Mutant of InBand: the band without its end points.
InBandStrict(ticks) ==
    U32Lt(U32OfNat(TICKS_MIN), ticks) /\ U32Lt(ticks, U32OfNat(TICKS_MAX))

\* Mutant of InBand: the band one tick wider at the upper end.
InBandLong(ticks) ==
    U32Le(U32OfNat(TICKS_MIN), ticks) /\ U32Le(ticks, U32OfNat(TICKS_MAX + 1))

\* Mutant of InBand: the band one tick wider at the lower end.
InBandWide(ticks) ==
    U32Le(U32OfNat(TICKS_MIN - 1), ticks) /\ U32Le(ticks, U32OfNat(TICKS_MAX))

\* ticks >= TICKS_MIN && ticks <= TICKS_MAX
InBand(ticks) ==
    U32Le(U32OfNat(TICKS_MIN), ticks) /\ U32Le(ticks, U32OfNat(TICKS_MAX))

\* Mutant of TimedOut: >= in place of >.
TimedOutAtWindow(now, lastOk) ==
    U32Le(U32OfNat(NO_SIGNAL_TIMEOUT_MS), U32Sub(now, lastOk))

\* (uint32_t)(millis() - s_lastOkMs) > NO_SIGNAL_TIMEOUT_MS
TimedOut(now, lastOk) ==
    U32Lt(U32OfNat(NO_SIGNAL_TIMEOUT_MS), U32Sub(now, lastOk))

\* Mutant of EmaUpdate: every accepted value replaces the estimate.
EmaAlwaysSeed(ema, f) == f

\* The NaN-safe EMA: start from the first valid value, blend afterwards.
EmaUpdate(ema, f) == IF ~isfinite(ema) THEN f ELSE EmaStep(ema, f)

\* An in-band tick count as a number
TicksNat(t) == t[1] * WORD + t[2]

\* Entry and the head of the atomic block.  Interrupts may be served between
\* any two steps of freq_read that leave SREG.I set.
FR_Enter ==
    /\ pc = "idle"
    /\ used.poll < lim.poll
    /\ cap' = U32Zero
    /\ have' = FALSE
    /\ sreg_save' = sreg_I
    /\ sreg_I' = AtomicBlockI
    /\ pc' = "test"
    /\ used' = [used EXCEPT !.poll = @ + 1]
    /\ UNCHANGED <<hwVars, isrVars, fgVars, millis, subMs, histVars, pollHist, lim, viewVars>>

\* if (s_newCap)
FR_Test ==
    /\ pc = "test"
    /\ pc' = IF s_newCap THEN "load_lo" ELSE "exit"
    /\ UNCHANGED <<hwVars, sreg_I, isrVars, fgVars, millis, subMs, cap, have,
                   sreg_save, histVars, pollHist, used, lim, viewVars>>

\* cap = s_icr32: the 8-bit core loads the value in parts; the low word
FR_LoadLo ==
    /\ pc = "load_lo"
    /\ cap' = U32(cap[1], s_icr32[2])
    /\ fetch' = [fetch EXCEPT !.lo = Len(stored)]
    /\ pc' = "load_hi"
    /\ UNCHANGED <<hwVars, sreg_I, isrVars, fgVars, millis, subMs, have, sreg_save,
                   histVars, consumed, accepted, call, used, lim, viewVars>>

\* cap = s_icr32: the high word
FR_LoadHi ==
    /\ pc = "load_hi"
    /\ cap' = U32(s_icr32[1], cap[2])
    /\ fetch' = [fetch EXCEPT !.hi = Len(stored)]
    /\ pc' = "clear"
    /\ UNCHANGED <<hwVars, sreg_I, isrVars, fgVars, millis, subMs, have, sreg_save,
                   histVars, consumed, accepted, call, used, lim, viewVars>>

\* s_newCap = false; have = true
FR_Clear ==
    /\ pc = "clear"
    /\ s_newCap' = ClearedNewCap
    /\ have' = TRUE
    /\ fetch' = [fetch EXCEPT !.clr = Len(stored)]
    /\ consumed' = Append(consumed, [id |-> fetch.lo, latest |-> Len(stored),
                                     poll |-> used.poll])
    /\ pc' = "exit"
    /\ UNCHANGED <<hwVars, sreg_I, s_ovf, s_icr32, fgVars, millis, subMs, cap,
                   sreg_save, histVars, accepted, call, used, lim, viewVars>>

\* The end of the atomic block: SREG is restored.
FR_Exit ==
    /\ pc = "exit"
    /\ sreg_I' = sreg_save
    /\ pc' = "process"
    /\ UNCHANGED <<hwVars, isrVars, fgVars, millis, subMs, cap, have, sreg_save,
                   histVars, pollHist, used, lim, viewVars>>

\* Mutant of prevIcr32_after: a sample whose delta is rejected leaves the
\* baseline alone.
PrevIcr32AfterAccepted(h, acc) ==
    IF h /\ (acc \/ BaselineUnset(s_prevIcr32)) THEN cap ELSE s_prevIcr32
\* s_prevIcr32 = cap, in the priming branch and before the band check alike
prevIcr32_after(h, acc) == IF h THEN cap ELSE s_prevIcr32

\* The rest of freq_read, which touches only foreground state: priming, the
\* delta, the band check, the EMA, the timeout, the return value.
FR_Process ==
    /\ pc = "process"
    /\ LET primed == have /\ BaselineUnset(s_prevIcr32)
           ticks  == U32Sub(cap, s_prevIcr32)
           f      == FDivClk(TicksNat(ticks))
           accept == have /\ ~primed /\ InBand(ticks) /\ isfinite(f)
           ema1   == IF accept THEN EmaUpdate(s_freq_ema, f) ELSE s_freq_ema
           ok1    == IF accept THEN millis ELSE s_lastOkMs
           out    == IF primed THEN s_freq_ema
                     ELSE IF TimedOut(millis, ok1) THEN FZero ELSE ema1
       IN  /\ s_prevIcr32' = prevIcr32_after(have, accept)
           /\ s_freq_raw' = IF accept THEN f ELSE s_freq_raw
           /\ s_freq_ema' = ema1
           /\ s_lastOkMs' = ok1
           /\ accepted' = IF accept THEN Append(accepted, TicksNat(ticks))
                          ELSE accepted
           /\ call' = [n |-> call.n + 1, have |-> have, cap |-> cap,
                       primed |-> primed,
                       ticks |-> IF have /\ ~primed THEN ticks ELSE U32Zero,
                       inBand |-> accept, nth |-> Len(consumed),
                       accBefore |-> Len(accepted),
                       prevOld |-> s_prevIcr32, emaOld |-> s_freq_ema,
                       rawOld |-> s_freq_raw, okOld |-> s_lastOkMs,
                       now |-> millis, ret |-> out]
    /\ pc' = "idle"
    /\ UNCHANGED <<hwVars, sreg_I, isrVars, millis, subMs, cap, have, sreg_save,
                   histVars, fetch, consumed, used, lim, viewVars>>

FreqRead ==
    \/ FR_Enter
    \/ FR_Test
    \/ FR_LoadLo
    \/ FR_LoadHi
    \/ FR_Clear
    \/ FR_Exit
    \/ FR_Process

(***************************************************************************)
(* Spec: the timer, both handlers and freq_read, interleaved at the level  *)
(* of single timer advances                                                *)
(***************************************************************************)
Next ==
    \/ \E d \in TickSteps : Tick(d)
    \/ Edge
    \/ CaptISR
    \/ OvfISR
    \/ \E k \in EpochSkips : QuietEpochs(k)
    \/ FreqRead

Spec == Init /\ [][Next]_vars

(***************************************************************************)
(* SpecPoll: whole rising edges, the passing of time and freq_read calls.  *)
(* Interrupts are enabled whenever freq_read is not running, so between    *)
(* two calls every overflow and every capture is served at once.  The main *)
(* loop polls faster than the input: every capture is consumed before the  *)
(* next edge (Spec covers captures that overwrite one another).            *)
(***************************************************************************)
\* d timer ticks pass, every overflow on the way served by the overflow
\* handler, then a rising edge arrives and the capture handler stores it.
EdgeAfter(d) ==
    /\ used.edge < lim.edge
    /\ pc = "idle" /\ sreg_I /\ ~TOV1 /\ ~ICF1
    /\ LET n   == (TCNT1 + d) \div WORD
           icr == (TCNT1 + d) % WORD
           ovf == (s_ovf + n) % WORD
       IN  /\ TCNT1' = icr
           /\ ICR1' = icr
           /\ s_ovf' = ovf
           /\ s_icr32' = U32(CaptEpoch(ovf, FALSE, icr), icr)
           /\ s_newCap' = TRUE
           /\ epochs' = epochs + n
           /\ edgeEpoch' = epochs + n
           /\ stored' = Append(stored, [val |-> s_icr32', epoch |-> epochs + n,
                                        icr |-> icr, onTime |-> TRUE])
    /\ capAge' = 0
    /\ millis' = MillisAfter(0, d)
    /\ subMs' = SubMsAfter(0, d)
    /\ used' = [used EXCEPT !.edge = @ + 1]
    /\ UNCHANGED <<TOV1, ICF1, sreg_I, fgVars, frameVars, pollHist, lim, viewVars>>

\* The edge of SpecPoll: the capture before it has been consumed
SignalEdge(d) == ~s_newCap /\ EdgeAfter(d)

\* ms milliseconds pass without an edge, every overflow served at once.
AdvanceMs(ms) ==
    /\ used.ms < lim.ms
    /\ pc = "idle" /\ sreg_I /\ ~TOV1 /\ ~ICF1
    /\ LET n == (TCNT1 + ms * TICKS_PER_MS) \div WORD
       IN  /\ TCNT1' = (TCNT1 + ms * TICKS_PER_MS) % WORD
           /\ s_ovf' = (s_ovf + n) % WORD
           /\ epochs' = epochs + n
    /\ millis' = U32Add(millis, U32OfNat(ms))
    /\ used' = [used EXCEPT !.ms = @ + 1]
    /\ UNCHANGED <<ICR1, TOV1, ICF1, sreg_I, s_icr32, s_newCap, fgVars, subMs,
                   frameVars, edgeEpoch, capAge, stored, pollHist, lim, viewVars>>

InitPoll ==
    /\ Start /\ Constructed
    /\ lim = [tick |-> 0, edge |-> MaxPollEdges, poll |-> MaxPollCalls,
              ms |-> MaxMsSteps]

NextPoll ==
    \/ \E d \in FirstTicks : stored = <<>> /\ SignalEdge(d)
    \/ \E d \in Deltas : stored # <<>> /\ SignalEdge(d)
    \/ \E ms \in MsSteps : AdvanceMs(ms)
    \/ FreqRead

SpecPoll == InitPoll /\ [][NextPoll]_vars

(***************************************************************************)
(* SpecSteady: a steady input.  Every edge is consumed by a poll before    *)
(* the next one arrives; the first accepted delta seeds the estimate, and  *)
(* from the second accepted delta on every delta is the same.              *)
(***************************************************************************)
SteadyEdge(d) ==
    /\ Len(accepted) >= 2 => d = accepted[Len(accepted)]
    /\ SignalEdge(d)

\* A poll made when a capture is pending
SteadyPoll == (pc = "idle" => s_newCap) /\ FreqRead

InitSteady ==
    /\ Start /\ Constructed
    /\ lim = [tick |-> 0, edge |-> MaxSteadyEdges, poll |-> MaxSteadyEdges,
              ms |-> 0]

NextSteady ==
    \/ \E d \in SteadyDeltas : SteadyEdge(d)
    \/ SteadyPoll

SpecSteady == InitSteady /\ [][NextSteady]_vars

(***************************************************************************)
(* Properties of the capture hand-off                                      *)
(***************************************************************************)
\* The sample (a run of the capture handler) a record of consumed refers to
SampleOf(c) == stored[c.id]

\* C1: the timestamp freq_read has fetched is the value stored by one complete
\* run of the capture handler (both words from the same run), and the
\* new-sample flag was cleared with no handler run since the fetch.
C1_FetchIsOneStore ==
    (pc \in {"exit", "process"} /\ have) =>
        /\ fetch.lo \in 1..Len(stored)
        /\ cap = stored[fetch.lo].val
        /\ fetch.hi = fetch.lo
        /\ fetch.clr = fetch.lo

\* C1 witness: a fetch of the second of two stores that differ in both words
C1_Witness ==
    /\ pc = "process" /\ have /\ fetch.lo = 2
    /\ stored[1].val[1] # stored[2].val[1]
    /\ stored[1].val[2] # stored[2].val[2]

\* C2: a call consumes at most one sample, the one stored last when its atomic
\* block ran; no sample is consumed by two calls (the consumed samples are
\* strictly later and later ones), so a sample overwritten before a poll is
\* never processed.
C2_ConsumeLatestOnce ==
    /\ \A i \in 1..Len(consumed) : consumed[i].id = consumed[i].latest
    /\ \A i \in 1..Len(consumed), j \in 1..Len(consumed) :
           i < j => /\ consumed[i].id < consumed[j].id
                    /\ consumed[i].poll < consumed[j].poll

\* C2 witness: two handler runs before the first poll; the poll consumed the
\* second sample and the next poll found nothing
C2_Witness ==
    /\ pc = "idle" /\ call.n = 2 /\ ~call.have
    /\ Len(consumed) = 1 /\ consumed[1].id = 2

\* The true extended time of the edge a sample reports, modulo 2^32
TrueStamp(s) == U32(s.epoch % WORD, s.icr)

\* The true number of ticks from the edge of sample a to the edge of the
\* later sample b, modulo 2^32
TrueGap(a, b) ==
    LET de == b.epoch - a.epoch
        dl == b.icr - a.icr
    IN  IF dl >= 0 THEN U32(de % WORD, dl)
        ELSE U32((de - 1 + WORD) % WORD, dl + WORD)

\* Samples a and b were taken within the same run of the 16-bit epoch counter
SameEpochRun(a, b) == a.epoch \div WORD = b.epoch \div WORD

\* A sample stored by handlers that ran on time carries the true timestamp
StampsTrue ==
    \A i \in 1..Len(stored) :
        stored[i].onTime => stored[i].val = TrueStamp(stored[i])

\* The delta of the last call is the true tick count between the two edges
DeltaTrue ==
    (pc = "idle" /\ call.have /\ ~call.primed /\ call.nth >= 2) =>
        LET a == SampleOf(consumed[call.nth - 1])
            b == SampleOf(consumed[call.nth])
        IN  (a.onTime /\ b.onTime) => call.ticks = TrueGap(a, b)

\* C3 (as amended): with both handlers on time, the stored timestamp is
\* (wraps before the edge) * 65536 + latched value modulo 2^32; the delta
\* freq_read computes from two consumed samples is the true tick count
\* modulo 2^32; and the consumed timestamps do not decrease as long as the
\* 16-bit epoch counter has not overflowed between the two edges.
C3_StampAndDelta ==
    /\ StampsTrue
    /\ DeltaTrue
    /\ \A i \in 1..Len(consumed), j \in 1..Len(consumed) :
           LET a == SampleOf(consumed[i])
               b == SampleOf(consumed[j])
           IN  (i < j /\ a.onTime /\ b.onTime /\ SameEpochRun(a, b))
                   => U32Le(a.val, b.val)

\* C3 witness: a delta taken across a timer wrap that the capture handler
\* met with the overflow still pending
C3_Witness ==
    /\ pc = "idle" /\ call.have /\ ~call.primed /\ call.nth = 2
    /\ LET a == SampleOf(consumed[1])
           b == SampleOf(consumed[2])
       IN  /\ a.onTime /\ b.onTime
           /\ b.epoch = a.epoch + 1
           /\ b.val[1] # s_ovf

\* C3 as claimed: the consumed timestamps never decrease, also across the
\* overflow of the epoch counter.
C3_NeverDecrease ==
    \A i \in 1..Len(consumed), j \in 1..Len(consumed) :
        LET a == SampleOf(consumed[i])
            b == SampleOf(consumed[j])
        IN  (i < j /\ a.onTime /\ b.onTime) => U32Le(a.val, b.val)

(***************************************************************************)
(* Properties of the processing of a sample and of the timeout             *)
(***************************************************************************)
\* Milliseconds from the last accepted sample (or freq_init) to call c
Elapsed(c) == U32Sub(c.now, c.okOld)

\* Call c was made more than 120 ms after the last accepted sample
Overdue(c) == U32Lt(U32OfNat(120), Elapsed(c))

\* 200 <= ticks <= 66666
InBandTicks(ticks) ==
    U32Le(U32OfNat(200), ticks) /\ U32Le(ticks, U32OfNat(66666))

\* The true number of ticks between the edges of the (i-1)-th and the i-th
\* consumed sample
Gap(i) == TrueGap(SampleOf(consumed[i - 1]), SampleOf(consumed[i]))

Max(a, b) == IF a >= b THEN a ELSE b

\* k * m for a small natural number k
MagScale(m, k) == <<m[1] * k + (m[2] * k) \div FRAC, (m[2] * k) % FRAC>>

\* The estimate after the accepted deltas log[1..n], from NaN
RECURSIVE FoldEma(_, _)
FoldEma(log, n) ==
    IF n = 0 THEN NaN
    ELSE EmaUpdate(FoldEma(log, n - 1), FDivClk(log[n]))

\* raw is tick_rate / ticks to within 2^-9 Hz: with q and r the integer
\* quotient and remainder and x the excess of raw over q in units of 2^-10,
\* x * ticks is r * 1024 up to two ticks.
RawIsQuotient(raw, ticks) ==
    LET t == TicksNat(ticks)
        q == 2000000 \div t
        r == 2000000 % t
        x == (raw[1] - q) * 1024 + raw[2] \div 2048
    IN  /\ x \in 0..1024
        /\ x * t <= r * 1024 + 2 * t
        /\ r * 1024 <= x * t + 2 * t

\* new is old + (raw - old) / 4 up to binary32 rounding: it lies between old
\* and raw, and four times its distance from old is the distance of raw from
\* old to within three units in the last place.
Blended(old, raw, new) ==
    /\ MagLe(old, raw) => (MagLe(old, new) /\ MagLe(new, raw))
    /\ MagLe(raw, old) => (MagLe(raw, new) /\ MagLe(new, old))
    /\ MagLe(MagDist(MagScale(MagDist(new, old), 4), MagDist(raw, old)),
             <<0, 3 * Ulp(Max(old[1], raw[1]))>>)

\* C4 as claimed: every call made more than 120 ms after the last accepted
\* sample (after freq_init when there is none) returns the sentinel 0, on
\* every path, the priming path and the rejection path included.
C4_SentinelPastTimeout ==
    (pc = "idle" /\ call.n > 0 /\ ~call.inBand /\ Overdue(call))
        => call.ret = FZero

C6_AcceptIffInBand ==
    (pc = "idle" /\ call.have /\ ~call.primed) =>
        /\ call.inBand <=> InBandTicks(call.ticks)
        /\ Len(accepted) = call.accBefore + (IF InBandTicks(call.ticks)
                                             THEN 1 ELSE 0)
        /\ call.ticks = U32OfNat(200) => s_lastOkMs = call.now
        /\ call.ticks = U32OfNat(66666) => s_lastOkMs = call.now

\* C6 witness: a delta of exactly 66666 ticks was accepted
C6_Witness ==
    /\ pc = "idle" /\ call.have /\ ~call.primed
    /\ call.ticks = U32OfNat(66666)
    /\ call.inBand /\ s_freq_raw = FDivClk(66666)

\* C7: a call that rejects an out-of-band delta leaves the smoothed estimate,
\* the raw estimate and the last-valid time as they were and moves the
\* baseline to the consumed timestamp; the smoothed estimate is a function of
\* the accepted deltas alone.
C7_RejectionFrame ==
    /\ (pc = "idle" /\ call.have /\ ~call.primed
            /\ ~InBandTicks(call.ticks)) =>
           /\ s_freq_ema = call.emaOld
           /\ s_freq_raw = call.rawOld
           /\ s_lastOkMs = call.okOld
           /\ s_prevIcr32 = call.cap
    /\ s_freq_ema = FoldEma(accepted, Len(accepted))

\* C7 witness: the deltas in-band, out-of-band, in-band after the priming
\* sample; the estimate is that of the two in-band deltas alone
C7_Witness ==
    /\ pc = "idle" /\ Len(consumed) = 4 /\ call.nth = 4
    /\ InBandTicks(Gap(2)) /\ ~InBandTicks(Gap(3)) /\ InBandTicks(Gap(4))
    /\ Gap(2) # Gap(4)
    /\ accepted = <<TicksNat(Gap(2)), TicksNat(Gap(4))>>
    /\ s_freq_ema = EmaStep(FDivClk(accepted[1]), FDivClk(accepted[2]))

\* C8 as claimed: a consumed sample is taken as the priming baseline if and
\* only if it is the first sample consumed since freq_init, whatever the
\* timestamps are.
C8_PrimingIffFirst ==
    (pc = "idle" /\ call.have) => (call.primed <=> call.nth = 1)

\* C9: on an accepted delta the raw estimate is tick_rate / delta; the
\* smoothed estimate is set to raw when no sample was accepted before and is
\* old + (raw - old) / 4 otherwise, also when the timeout has passed since
\* the last accepted sample; the last-valid time is the time of the call.
C9_AcceptedUpdate ==
    (pc = "idle" /\ call.inBand) =>
        /\ RawIsQuotient(s_freq_raw, call.ticks)
        /\ call.accBefore = 0 => s_freq_ema = s_freq_raw
        /\ call.accBefore > 0 =>
               Blended(call.emaOld, s_freq_raw, s_freq_ema)
        /\ s_lastOkMs = call.now

\* C9 witness: a sample accepted more than 120 ms after the last accepted
\* one, blended with the estimate from before the timeout
C9_Witness ==
    /\ pc = "idle" /\ call.inBand /\ call.accBefore > 0 /\ Overdue(call)
    /\ s_freq_ema # s_freq_raw
    /\ s_freq_ema # call.emaOld

(***************************************************************************)
(* Properties of the EMA under a steady input                              *)
(***************************************************************************)
\* The last call blended an accepted delta into the estimate
SteadyBlend == pc = "idle" /\ call.inBand /\ call.accBefore >= 1

\* (float)TIMER1_CLK_HZ / (float)P for the delta P of the last call
Target == FDivClk(TicksNat(call.ticks))

\* |smoothed - target| before and after the last call
ErrOld == MagDist(call.emaOld, Target)

ErrNew == MagDist(s_freq_ema, Target)

\* C10 (as amended): under a steady delta P the distance of the smoothed
\* estimate from the binary32 quotient tick_rate / P does not increase from
\* one accepted sample to the next; the new distance is 3/4 of the old one to
\* within three units in the last place; and it stops shrinking only at a
\* distance of at most two units in the last place of the estimate.
C10_ErrorDecay ==
    SteadyBlend =>
        /\ MagLe(ErrNew, ErrOld)
        /\ MagLe(MagDist(MagScale(ErrNew, 4), MagScale(ErrOld, 3)),
                 <<0, 3 * Ulp(Max(call.emaOld[1], Target[1]))>>)
        /\ (ErrNew = ErrOld /\ ErrOld # FZero) =>
               MagLe(ErrOld, <<0, 2 * Ulp(call.emaOld[1])>>)

\* C10 witness: in the middle of the decay, the distance shrank and is not 0
C10_Witness ==
    /\ SteadyBlend /\ call.accBefore >= 2
    /\ ErrNew # ErrOld /\ ErrNew # FZero

\* C10 as claimed: the distance falls below any epsilon.  The update is a
\* function of the estimate and the delta, so under a steady delta a sample
\* that leaves a nonzero distance as it was leaves it so for ever; the claim
\* needs every sample to shrink a nonzero distance.
C10_ErrorVanishes ==
    SteadyBlend => (ErrOld = FZero \/ ErrNew # ErrOld)

(***************************************************************************)
(* The range of the estimate                                               *)
(***************************************************************************)
\* The binary32 quotients of the two ends of the tick band: tick_rate / 66666
\* and tick_rate / 200
EstimateMin == FDivClk(TICKS_MAX)
EstimateMax == FDivClk(TICKS_MIN)

\* x lies between the two quotients, and so between 30 Hz and 10 kHz
InFreqBand(x) ==
    /\ MagLe(EstimateMin, x) /\ MagLe(x, EstimateMax)
    /\ MagLe(<<30, 0>>, x) /\ MagLe(x, <<10000, 0>>)

ST == 8
CENTS_LIMIT == 4999         \* 49.99 cents in hundredths of a cent
MIN_VALID_POS == -452       \* the lowest pos at or above MIN_VALID_FREQ, 10 Hz
ONE_HZ_POS == -771          \* the lowest pos at or above 1 Hz
A4_POS == 9 * ST            \* A4 lies 9 semitones above C4
COL_LAST == 27

\* abs is the place of the frequency itself, counted from the C4 of 440 Hz;
\* pos is its place against the reference in use.
NanTone == [kind |-> "nan", pos |-> 0, abs |-> 0]
InfTone == [kind |-> "inf", pos |-> 0, abs |-> 0]
NegTone == [kind |-> "neg", pos |-> 0, abs |-> 0]
ZeroTone == [kind |-> "zero", pos |-> 0, abs |-> 0]
Num(p) == [kind |-> "num", pos |-> p, abs |-> p]

\* isfinite(freq), freq <= 0.0f, freq < 1.0f, freq < min_valid_freq: every
\* comparison with NaN is false, and +infinity is below nothing.
finite(t) == t.kind \notin {"nan", "inf"}
NotPositive(t) == t.kind \in {"zero", "neg"}
BelowOneHz(t) == NotPositive(t) \/ (t.kind = "num" /\ t.abs < ONE_HZ_POS)
FloorAtOneHz(t) == NotPositive(t) \/ (t.kind = "num" /\ t.abs < ONE_HZ_POS)
BelowFloor(t) == NotPositive(t) \/ (t.kind = "num" /\ t.abs < MIN_VALID_POS)

\* A reference pitch is a frequency too: as a number it is given by its
\* place above 440 Hz.
A440 == Num(0)
\* Mutant of pitch_concert_a: the default is a semitone below 440 Hz.
DefaultA415(r) == IF ~finite(r) \/ NotPositive(r) THEN Num(-ST) ELSE r
\* if (!isfinite(ref) || ref <= 0.0f) ref = 440.0f
pitch_concert_a(r) == IF ~finite(r) \/ NotPositive(r) THEN A440 ELSE r
\* freq / ref under the logarithm: the place of freq against the reference
Against(t, r) ==
    IF t.kind = "num"
    THEN [kind |-> "num", pos |-> t.abs - pitch_concert_a(r).abs, abs |-> t.abs]
    ELSE t

\* C integer division and remainder truncate towards zero.
CDiv(a, b) == IF a >= 0 THEN a \div b ELSE -((-a) \div b)
CRem(a, b) == a - b * CDiv(a, b)

ConstrainAbove(x, lo, hi) == IF x > hi THEN hi ELSE x
constrain(x, lo, hi) == IF x < lo THEN lo ELSE IF x > hi THEN hi ELSE x

\* ---- display_keyboard_drift: the arithmetic ----
\* Mutant of note_pixel_center: the anchors without the gap from E to F.
CentersEvenlySpaced == <<2, 4, 6, 8, 10, 12, 14, 16, 18, 20, 22, 24, 26>>
note_pixel_center == <<2, 4, 6, 8, 10, 14, 16, 18, 20, 22, 24, 26, 30>>

kCol2NoteIdx ==
    <<6, 0, 0, 0,  0, 1, 1, 1,  1, 2, 2, 2,  2, 3, 3, 3,
      3, 4, 4, 4,  4, 5, 5, 5,  5, 6, 6, 6>>

kCol2Alter ==
    <<1, -1, 0, 1,  1, -1, 0, 1,  1, -1, 0, 1,  1, -1, 0, 1,
      1, -1, 0, 1,  1, -1, 0, 1,  1, -1, 0, 1>>

\* (int)floorf(st_c)
base_st(t) == t.pos \div ST
midi_base(t) == 60 + base_st(t)
\* Mutant of octave: the octave of the nearest semitone, not of the lower bin.
OctaveNearest(t) == CDiv(60 + (t.pos + ST \div 2) \div ST, 12) - 1
octave(t) == CDiv(midi_base(t), 12) - 1
\* st_c - (float)base_st, in steps of 1 / ST
frac(t) == t.pos - ST * base_st(t)
idx(t) == CRem(CRem(base_st(t), 12) + 12, 12)
ColWeightsSwapped(t) ==
    note_pixel_center[idx(t) + 1] * frac(t)
        + note_pixel_center[idx(t) + 2] * (ST - frac(t))
\* note_pixel_center[idx] * (1 - frac) + note_pixel_center[idx + 1] * frac,
\* in steps of 1 / ST of a column
col_f(t) ==
    note_pixel_center[idx(t) + 1] * (ST - frac(t))
        + note_pixel_center[idx(t) + 2] * frac(t)
\* (int)(col_f + 0.5f): col_f is not negative, the cast truncates
col_raw(t) == (col_f(t) + ST \div 2) \div ST
col(t) == constrain(col_raw(t), 0, COL_LAST)
octave_disp(t) == constrain(octave(t), 0, 9)

\* col_to_buf_row6: <<bufIndex, mask>>
col_to_buf_row6(c) == <<(c \div 8) * 8 + 6, Pow2(7 - (c % 8))>>

\* b ^ mask for a mask of one bit
Xor(b, mask) == IF (b \div mask) % 2 = 1 THEN b - mask ELSE b + mask

\* ---- frequency_to_note ----
note_names == <<"C ", "C#", "D ", "D#", "E ", "F ", "F#", "G ", "G#", "A ", "A#", "B ">>
\* (char)('0' + o) for o from 0 on: the digits and the characters after them
Digits ==
    <<"0", "1", "2", "3", "4", "5", "6", "7", "8", "9",
      ":", ";", "<", "=", ">", "?">>

\* 69.0f + 12.0f * ratio, in steps of 1 / ST of a semitone
midi_f(t) == 69 * ST + (t.pos - A4_POS)
\* Mutant of midi_i: the cast alone, which drops the fraction.
MidiTruncated(t) == CDiv(midi_f(t), ST)
\* (int16_t)(midi_f + (midi_f >= 0 ? 0.5 : -0.5))
midi_i(t) ==
    IF midi_f(t) >= 0 THEN (midi_f(t) + ST \div 2) \div ST
    ELSE -((ST \div 2 - midi_f(t)) \div ST)
note_index(t) == CRem(CRem(midi_i(t), 12) + 12, 12)
\* Mutant of note_octave: the quotient without the offset of one octave.
OctaveFromZero(t) == CDiv(midi_i(t), 12)
\* (int8_t)(midi_i / 12 - 1)
note_octave(t) == CDiv(midi_i(t), 12) - 1
\* (midi_f - midi_i) * 100, clamped to +-49.99, then roundf of its magnitude
\* as print_drift takes it (a half rounds away from zero)
cents_sign(t) == IF midi_f(t) - ST * midi_i(t) < 0 THEN -1 ELSE 1
cents_abs(t) ==
    LET d == midi_f(t) - ST * midi_i(t)
        a == IF d < 0 THEN -d ELSE d
    IN  (2 * a * 100 + ST) \div (2 * ST)

\* (midi_f - midi_i) * 100 in hundredths of a cent
cents_raw(t) == (midi_f(t) - ST * midi_i(t)) * (10000 \div ST)
\* Mutant of cents_clamped: no clamp.
CentsUnclamped(x) == x
\* if (cents > 49.99f) cents = 49.99f; else if (cents < -49.99f) cents = -49.99f
cents_clamped(x) ==
    IF x > CENTS_LIMIT THEN CENTS_LIMIT
    ELSE IF x < -CENTS_LIMIT THEN -CENTS_LIMIT ELSE x

\* The string composed in result[]: two characters of the note, a minus sign
\* for a negative octave, a "1" for an octave of 10 or more, one digit.
OctaveText(o) ==
    LET a == IF o < 0 THEN -o ELSE o
    IN  (IF o < 0 THEN "-" ELSE "")
            \o (IF a >= 10 THEN "1" ELSE "")
            \o Digits[(IF a >= 10 THEN a - 10 ELSE a) + 1]
\* !isfinite(freq) || freq < 1.0f
Rejected(t) == ~finite(t) \/ BelowOneHz(t)
Composed(t) == note_names[note_index(t) + 1] \o OctaveText(note_octave(t))
\* drift is *cent_drift in hundredths of a cent; cents and sign are its
\* rounded magnitude and its sign
frequency_to_note(t) ==
    IF Rejected(t)
    THEN [name |-> "", cents |-> 0, sign |-> 1, midi |-> 0, drift |-> 0]
    ELSE [name |-> Composed(t),
          cents |-> cents_abs(t), sign |-> cents_sign(t), midi |-> midi_i(t),
          drift |-> cents_clamped(cents_raw(t))]
\* Mutant of result_after: a rejected call empties the buffer.
ResultCleared(t) == IF Rejected(t) THEN "" ELSE Composed(t)
\* result[] after the call: the rejecting return comes before the buffer
result_after(t) == IF Rejected(t) THEN result ELSE Composed(t)

(***************************************************************************)
(* HT1635.cpp: the display operations                                      *)
(*                                                                         *)
(* bus lists the data transmissions of the last operation: the device      *)
(* address it starts at, the number of data bytes (a byte takes two        *)
(* addresses), what it carries.                                            *)
(***************************************************************************)
Modes == {"numeric", "bar_graph", "piano_view"}
WIRE_CHUNK == 30
LABEL_ADDR == 64
PLACEHOLDER == "-    "

Tx(a, n, what, str, val) ==
    [addr |-> a, len |-> n, what |-> what, str |-> str, val |-> val]

BlankBuffer == [i \in 0 .. HT_RAM_LAST_ADDRESS - 1 |-> 0]

\* The keyboard picture of bitmap_fonts.h: the keys in rows 0 to 5 of the
\* first four modules, the cursor row 6 and the label module left blank.
font_keyboard ==
    [i \in 0 .. HT_RAM_LAST_ADDRESS - 1 |->
        IF i < 32 /\ i % 8 < 6 THEN 255 ELSE 0]

\* ParamTx(0, rown): 8 bytes from rown on; it returns rown + 16.
ParamTx(rown) == Tx(rown, 8, "clear", "", 0)
\* clear_display(): five ParamTx, each starting where the last one ended
ClearBus == [k \in 1 .. 5 |-> ParamTx(16 * (k - 1))]
\* i2c_sendout_bitmap(0): chunks of at most 30 bytes
SendoutBus ==
    <<Tx(0, WIRE_CHUNK, "bitmap", "", 0),
      Tx(2 * WIRE_CHUNK, HT_RAM_LAST_ADDRESS - WIRE_CHUNK, "bitmap", "", 0)>>

\* update_display(): what it sends and what it leaves in the framebuffer
UpdateBus(m) == ClearBus \o (IF m = "piano_view" THEN SendoutBus ELSE ClearBus)
Picture(m) == IF m = "piano_view" THEN font_keyboard ELSE BlankBuffer

Sentinels ==
    /\ s_prev_col' = NO_COL /\ s_prev_note_idx' = NO_NOTE
    /\ s_prev_alt' = NO_ALT /\ s_prev_octave' = NO_OCTAVE

\* display_keyboard(): the reset of the cursor and label memory
KeyboardKeepsMemory == UNCHANGED diffVars
KeyboardResetsMemory == Sentinels

update_display(m) ==
    /\ bitmap_buffer' = Picture(m)
    /\ bus' = UpdateBus(m)
    /\ memory_pointer' = 0
    /\ IF m = "piano_view" THEN KeyboardResetsMemory ELSE UNCHANGED diffVars

Snapshot ==
    [col |-> s_prev_col, note |-> s_prev_note_idx, alt |-> s_prev_alt,
     octave |-> s_prev_octave, buf |-> bitmap_buffer,
     mode |-> tuner_view_mode]
\* prev: the operation before this one;
\* again: a render pass that directly follows a render pass of the same tone
Record(op, t, c) ==
    pass' = [op |-> op, tone |-> t, col |-> c, from |-> Snapshot,
             prev |-> pass.op,
             again |-> (op = "render" /\ pass.op = "render" /\ pass.tone = t)]

\* A byte taken from a glyph table or composed for the drift field: the
\* model does not follow its value, which is no byte value here.  The glyph
\* of the blank is empty.
GLYPH == Pow2(8)
Glyph(ch) == IF ch = " " THEN 0 ELSE GLYPH
\* Transmission w writes the byte of index i; the byte it leaves there
Covers(w, i) == 2 * i >= w.addr /\ 2 * i < w.addr + 2 * w.len
Sent(w, i, buf) ==
    LET k  == i - w.addr \div 2
        ch == w.val + k \div 8 + 1
    IN  CASE w.what = "clear" -> 0
          [] w.what = "bitmap" -> buf[i]
          [] w.what = "cursor" -> w.val
          [] w.what = "text" -> Glyph(SubSeq(w.str, ch, ch))
          [] OTHER -> GLYPH
\* The device RAM after the transmissions b, sent in order
RECURSIVE Written(_, _, _)
Written(r, b, buf) ==
    IF b = <<>> THEN r
    ELSE Written([i \in DOMAIN r |->
                    IF Covers(Head(b), i) THEN Sent(Head(b), i, buf) ELSE r[i]],
                 Tail(b), buf)
\* The device takes the transmissions of the operation.  It is followed
\* where the methods are called directly and in the user interface; the
\* other specifications observe the transmissions themselves.
Transmit == ram' = Written(ram, bus', bitmap_buffer')

\* set_tuner_view_mode(mode)
SetMode(m) ==
    /\ tuner_view_mode' = m
    /\ update_display(m)
    /\ Record("mode", NanTone, NO_COL)
    /\ UNCHANGED result

\* restore_tuner_view() of display_main.cpp: update_display() in the mode set
RestoreView ==
    /\ update_display(tuner_view_mode)
    /\ Record("restore", NanTone, NO_COL)
    /\ UNCHANGED <<tuner_view_mode, result>>

\* print_string5(str): 8 bytes a character, a new transmission at the fourth
StringBus(str) ==
    IF Len(str) <= 3 THEN <<Tx(0, 8 * Len(str), "text", str, 0)>>
    ELSE <<Tx(0, 8 * 3, "text", str, 0),
           Tx(16 * 3, 8 * (Len(str) - 3), "text", str, 3)>>
StringEnd(str) == (16 * Len(str)) % 256

\* roundf(x) for x in hundredths: the nearest integer, a half away from zero
roundf(x) == IF x >= 0 THEN (x + 50) \div 100 ELSE -((50 - x) \div 100)
\* Mutant of drift_int: the quotient rounded to the nearest integer.
DriftIntNearest(x) == roundf(10 * roundf(x))
\* int8_t drift_int = roundf(drift) / 10: a float quotient, which the
\* conversion truncates
drift_int(x) == CDiv(roundf(x), 10)
\* a | b
RECURSIVE BitOr(_, _)
BitOr(a, b) ==
    IF a = 0 THEN b
    ELSE IF b = 0 THEN a
    ELSE (IF a % 2 = 1 \/ b % 2 = 1 THEN 1 ELSE 0)
            + 2 * BitOr(a \div 2, b \div 2)
\* bar_mask of print_drift: 1 << center, then the bar on one side of it
bar_mask(x) ==
    LET d      == drift_int(x)
        center == 5
    IN  IF d > 0
        THEN BitOr(Pow2(center), (Pow2(d) - 1) * Pow2(center + 1))
        ELSE BitOr(Pow2(center), (Pow2(-d) - 1) * Pow2(center - (-d)))
\* What the drift field shows: the mask in bar_graph mode, the signed
\* rounded cents in numeric mode
DriftVal(x) == IF tuner_view_mode = "bar_graph" THEN bar_mask(x) ELSE roundf(x)

\* print_drift(cents) in numeric and bar_graph mode: 16 bytes from
\* _memory_pointer on
DriftBus(from, val) == <<Tx(from, 16, "drift", "", val)>>

\* ---- display_keyboard_drift: cursor and label ----
HasPrev == s_prev_col >= 0 /\ s_prev_col <= COL_LAST
\* Mutant of Erased: the previous pixel stays lit.
NotErased == bitmap_buffer
Erased ==
    IF HasPrev
    THEN LET p == col_to_buf_row6(s_prev_col)
         IN  [bitmap_buffer EXCEPT ![p[1]] = Xor(@, p[2])]
    ELSE bitmap_buffer
Lit(c) ==
    LET b == col_to_buf_row6(c)
    IN  [Erased EXCEPT ![b[1]] = Xor(@, b[2])]
\* write_byte(index, value)
write_byte(i, v) == Tx(i * 2, 1, "cursor", "", v)

CursorAlways(c) == TRUE
CursorMoved(c) == c # s_prev_col

CursorBus(c) ==
    IF ~CursorMoved(c) THEN <<>>
    ELSE (IF HasPrev
          THEN <<write_byte(col_to_buf_row6(s_prev_col)[1],
                            Erased[col_to_buf_row6(s_prev_col)[1]])>>
          ELSE <<>>)
         \o <<write_byte(col_to_buf_row6(c)[1], Lit(c)[col_to_buf_row6(c)[1]])>>

Label(t) == <<kCol2NoteIdx[col(t) + 1], kCol2Alter[col(t) + 1], octave_disp(t)>>
LabelOnMove(t) == CursorMoved(col(t))
label_changed(t) == Label(t) # <<s_prev_note_idx, s_prev_alt, s_prev_octave>>
LabelBus(t) ==
    IF label_changed(t) THEN <<Tx(LABEL_ADDR, 8, "label", "", 0)>> ELSE <<>>

display_keyboard_drift(t) ==
    IF ~finite(t) \/ NotPositive(t)
    THEN /\ bus' = <<>>
         /\ Record("render", t, NO_COL)
         /\ UNCHANGED <<memory_pointer, bitmap_buffer, diffVars, result>>
    ELSE /\ bus' = CursorBus(col(t)) \o LabelBus(t)
         /\ Record("render", t, col(t))
         /\ UNCHANGED result
         /\ IF CursorMoved(col(t))
            THEN /\ bitmap_buffer' = Lit(col(t))
                 /\ memory_pointer' = col_to_buf_row6(col(t))[1] + 2
            ELSE UNCHANGED <<bitmap_buffer, memory_pointer>>
         /\ s_prev_col' = col(t)
         /\ IF label_changed(t)
            THEN /\ s_prev_note_idx' = Label(t)[1]
                 /\ s_prev_alt' = Label(t)[2]
                 /\ s_prev_octave' = Label(t)[3]
            ELSE UNCHANGED <<s_prev_note_idx, s_prev_alt, s_prev_octave>>

\* render_pitch_and_drift(freq, concert_ref_a, MIN_VALID_FREQ)
render_pitch_and_drift(t) ==
    /\ UNCHANGED tuner_view_mode
    /\ IF BelowFloor(t)
       THEN /\ bus' = StringBus(PLACEHOLDER)
            /\ memory_pointer' = StringEnd(PLACEHOLDER)
            /\ Record("render", t, NO_COL)
            /\ UNCHANGED <<bitmap_buffer, diffVars, result>>
       ELSE IF tuner_view_mode = "piano_view"
       THEN display_keyboard_drift(t)
       ELSE LET n == frequency_to_note(t)
            IN  /\ bus' = StringBus(n.name)
                          \o DriftBus(StringEnd(n.name), DriftVal(n.drift))
                /\ memory_pointer' = StringEnd(n.name)
                /\ result' = result_after(t)
                /\ Record("render", t, NO_COL)
                /\ UNCHANGED <<bitmap_buffer, diffVars>>

(***************************************************************************)
(* The display driven by the loop: the tuner view is redrawn in the mode   *)
(* read from the settings, then render passes and mode changes alternate   *)
(* freely.                                                                 *)
(***************************************************************************)
\* One octave from C4 to the next C: each note, each tie of the column
\* rounding (a quarter and three quarters of the way between two anchors two
\* columns apart, the odd eighths where the anchors lie four columns apart:
\* E to F and B to C).
Sweep ==
    {p \in 0 .. 12 * ST :
        \/ p % ST \in {0, 2, 6}
        \/ (p \div ST) \in {4, 11} /\ p % 2 = 1}
\* Around 1 Hz, around MIN_VALID_FREQ, in octave -1, at the step from B-1 to
\* C0, at the step from octave 9 to octave 10, and in octave 19.
Outliers ==
    {ONE_HZ_POS - 1, ONE_HZ_POS, MIN_VALID_POS - 1, MIN_VALID_POS,
     MIN_VALID_POS + 1, -389, -388, 571, 572, 12 * ST * 6, 12 * ST * 15}
\* The whole sweep, the outliers, and E -1, the lowest semitone above the
\* floor
Tones ==
    {NanTone, ZeroTone} \cup {Num(p) : p \in Sweep \cup Outliers \cup {-56 * ST}}
\* The tones rendered between mode changes: no tone, silence, the outliers,
\* and in the swept octave C, C sharp, the tie from E to F, A, B and the next C.
Notes == {0, ST, 4 * ST + 1, A4_POS, 11 * ST, 12 * ST - 1, 12 * ST}
SomeTones == {NanTone, ZeroTone} \cup {Num(p) : p \in Notes \cup Outliers}

freqVars == <<hwVars, sreg_I, isrVars, fgVars, millis, subMs, frameVars,
              histVars, pollHist, used, lim>>

InitView ==
    /\ Start
    /\ lim = [tick |-> 0, edge |-> 0, poll |-> 0, ms |-> 0]
    /\ \E m \in Modes :
         /\ tuner_view_mode = m
         /\ memory_pointer = 0
         /\ bitmap_buffer = Picture(m)
         /\ s_prev_col = NO_COL /\ s_prev_note_idx = NO_NOTE
         /\ s_prev_alt = NO_ALT /\ s_prev_octave = NO_OCTAVE
         /\ result = ""
         /\ ram = Picture(m)
         /\ probe = NoProbe
         /\ display_status = "tuner_view"
         /\ BoardUp
         /\ bus = UpdateBus(m)
         /\ pass = [op |-> "mode", tone |-> NanTone, col |-> NO_COL,
                    from |-> [col |-> NO_COL, note |-> NO_NOTE, alt |-> NO_ALT,
                              octave |-> NO_OCTAVE, buf |-> BlankBuffer,
                              mode |-> "piano_view"],
                    prev |-> "none", again |-> FALSE]

NextView ==
    \/ \E m \in Modes : SetMode(m) /\ UNCHANGED <<freqVars, probe, uiVars, boardVars, ram>>
    \/ RestoreView /\ UNCHANGED <<freqVars, probe, uiVars, boardVars, ram>>
    \/ \E t \in SomeTones :
            render_pitch_and_drift(t) /\ UNCHANGED <<freqVars, probe, uiVars, boardVars, ram>>

SpecView == InitView /\ [][NextView]_vars

\* The tuner view left in the mode of the settings, one render pass after the
\* other, the tones drawn from the whole sweep.
NextSweep ==
    \E t \in Tones : render_pitch_and_drift(t) /\ UNCHANGED <<freqVars, probe, uiVars, boardVars, ram>>

SpecSweep == InitView /\ [][NextSweep]_vars

(***************************************************************************)
(* The render pass                                                         *)
(***************************************************************************)
Rendered == pass.op = "render"
PianoPass == Rendered /\ tuner_view_mode = "piano_view"
ModeSet == pass.op = "mode"
\* Every device address of the display, 0 to 79, lies in a transmission.
Covered ==
    \A a \in 0 .. 2 * HT_RAM_LAST_ADDRESS - 1 :
        \E i \in 1 .. Len(bus) :
            bus[i].addr <= a /\ a < bus[i].addr + 2 * bus[i].len
AllUnknown ==
    /\ s_prev_col = NO_COL /\ s_prev_note_idx = NO_NOTE
    /\ s_prev_alt = NO_ALT /\ s_prev_octave = NO_OCTAVE

\* C12: in every mode, a render pass that directly follows a render pass of
\* the same frequency, reference and floor (no mode switch between the two)
\* issues no bus writes.
C12_SecondPassSilent == (Rendered /\ pass.again) => bus = <<>>

MemoryKept ==
    /\ s_prev_col = pass.from.col /\ s_prev_note_idx = pass.from.note
    /\ s_prev_alt = pass.from.alt /\ s_prev_octave = pass.from.octave
BufferKept == bitmap_buffer = pass.from.buf
Quiet(t) == t.kind = "zero" \/ (t.kind = "num" /\ t.pos < MIN_VALID_POS)

\* C14: in every mode, a render pass with a frequency below min_valid_freq
\* sends the placeholder string and nothing else (no name, no drift field, no
\* cursor, no label: neither frequency_to_note nor display_keyboard_drift has
\* run), and leaves the cursor and label memory and the framebuffer as they
\* were.
C14_BelowFloorPlaceholderOnly ==
    (Rendered /\ Quiet(pass.tone)) =>
        /\ bus = <<Tx(0, 24, "text", "-    ", 0), Tx(48, 16, "text", "-    ", 3)>>
        /\ pass.col = NO_COL
        /\ MemoryKept /\ BufferKept
C14_Witness ==
    /\ PianoPass /\ pass.tone = Num(MIN_VALID_POS - 1)
    /\ s_prev_col = 22 /\ s_prev_octave = 4
    /\ bitmap_buffer # font_keyboard

\* C15: in every mode, a render pass with a frequency that is not finite
\* (NaN, which freq_read returns until the first in-band sample is accepted)
\* shows the placeholder string.
C15_NaNShowsPlaceholder ==
    (Rendered /\ pass.tone.kind = "nan") =>
        bus = <<Tx(0, 24, "text", "-    ", 0), Tx(48, 16, "text", "-    ", 3)>>

(***************************************************************************)
(* The tables                                                              *)
(***************************************************************************)
\* C16: for every finite positive frequency, each table index is in range:
\* the semitone index in 0..11 (so that the anchor idx + 1 is at most 12),
\* the cursor column in 0..27, the displayed octave in 0..9, the note index
\* of the name table in 0..11, the cursor byte index below 40.
C16_IndicesInRange ==
    (Rendered /\ pass.tone.kind = "num") =>
        /\ idx(pass.tone) \in 0 .. 11
        /\ idx(pass.tone) + 2 <= Len(note_pixel_center)
        /\ col(pass.tone) \in 0 .. 27
        /\ col(pass.tone) + 1 <= Len(kCol2NoteIdx)
        /\ col(pass.tone) + 1 <= Len(kCol2Alter)
        /\ octave_disp(pass.tone) \in 0 .. 9
        /\ note_index(pass.tone) \in 0 .. 11
        /\ col_to_buf_row6(col(pass.tone))[1] < HT_RAM_LAST_ADDRESS
        /\ (tuner_view_mode = "piano_view" /\ ~Quiet(pass.tone)) =>
             /\ s_prev_col = col(pass.tone) /\ s_prev_col \in 0 .. 27
             /\ s_prev_octave \in 0 .. 9
             /\ s_prev_note_idx \in 0 .. 6
             /\ \A i \in 1 .. Len(bus) :
                  bus[i].what = "cursor" =>
                      bus[i].addr \div 2 < HT_RAM_LAST_ADDRESS
\* The clamp at work: B almost at the next C maps to column 30, clamped to 27.
C16_Witness ==
    /\ PianoPass /\ pass.tone = Num(12 * ST - 1)
    /\ col_raw(pass.tone) = 30 /\ s_prev_col = 27

(***************************************************************************)
(* The addresses written                                                   *)
(***************************************************************************)
\* C17: in every mode and for every frequency at or above min_valid_freq,
\* every write of a render pass lies within the device addresses 0..79 of the
\* 40-byte framebuffer, the drift field included, which starts where the note
\* name of 3 or 4 characters ended.
C17_WritesInsideDisplay ==
    (Rendered /\ pass.tone.kind = "num" /\ ~Quiet(pass.tone)) =>
        \A i \in 1 .. Len(bus) :
            /\ bus[i].addr >= 0
            /\ bus[i].addr + 2 * bus[i].len <= 2 * HT_RAM_LAST_ADDRESS

(***************************************************************************)
(* The cursor                                                              *)
(***************************************************************************)
Shown(p) == p.op = "render" /\ p.tone.kind = "num" /\ ~Quiet(p.tone)

\* C18: when two successive piano passes render frequencies of the same
\* octave (from a C up to, not including, the next C of the same reference)
\* and the second is not lower than the first, the second column is not
\* lower than the first; hence the columns of a non-decreasing sequence of
\* frequencies within one octave are non-decreasing.
C18_ColumnsMonotone ==
    [][(/\ tuner_view_mode = "piano_view"
        /\ Shown(pass) /\ Shown(pass')
        /\ octave(pass.tone) = octave(pass'.tone)
        /\ pass.tone.pos <= pass'.tone.pos)
       => (pass.col <= pass'.col /\ s_prev_col <= s_prev_col')]_vars
\* The cursor steps from E (column 10) to the next column at the first tie
\* between E and F.
C18_Witness ==
    /\ PianoPass /\ pass.prev = "render"
    /\ pass.tone = Num(4 * ST + 1)
    /\ pass.from.col = 10 /\ pass.from.octave = 4
    /\ s_prev_col = 11 /\ s_prev_octave = 4

Bit(b, mask) == (b \div mask) % 2 = 1
IsCursor(w) == w.what = "cursor"
CursorWrites == SelectSeq(bus, IsCursor)

\* C19: a piano pass whose column equals the previous column issues no cursor
\* write and leaves the framebuffer alone; a pass whose column differs issues
\* one single-byte write that clears the previous pixel (none if there was no
\* previous column), then one single-byte write that lights the new pixel, and
\* changes no other bit of the framebuffer.
C19_CursorWrites ==
    (PianoPass /\ Shown(pass)) =>
        LET new == col_to_buf_row6(pass.col)
            had == pass.from.col >= 0 /\ pass.from.col <= COL_LAST
            old == col_to_buf_row6(IF had THEN pass.from.col ELSE 0)
            mid == IF had
                   THEN [pass.from.buf EXCEPT ![old[1]] = @ - old[2]]
                   ELSE pass.from.buf
            w == CursorWrites
        IN  IF pass.col = pass.from.col
            THEN w = <<>> /\ BufferKept
            ELSE /\ Len(w) = (IF had THEN 2 ELSE 1)
                 /\ \A i \in 1 .. Len(w) : w[i].len = 1
                 /\ had =>
                      /\ Bit(pass.from.buf[old[1]], old[2])
                      /\ w[1].addr = 2 * old[1] /\ w[1].val = mid[old[1]]
                 /\ ~Bit(mid[new[1]], new[2])
                 /\ w[Len(w)].addr = 2 * new[1]
                 /\ w[Len(w)].val = mid[new[1]] + new[2]
                 /\ bitmap_buffer = [mid EXCEPT ![new[1]] = @ + new[2]]
\* The cursor moves from C (column 2) to C sharp (column 4), both in byte 6.
C19_Witness ==
    /\ PianoPass /\ pass.tone = Num(ST)
    /\ pass.from.col = 2 /\ pass.col = 4
    /\ CursorWrites = <<write_byte(6, 0), write_byte(6, 8)>>
    /\ bitmap_buffer[6] = 8 /\ pass.from.buf[6] = 32

(***************************************************************************)
(* The label                                                               *)
(***************************************************************************)
IsLabel(w) == w.what = "label"
LabelWrites == SelectSeq(bus, IsLabel)

Bin(t) == (t.pos \div ST) % 12
OctaveOfBin(t) == 4 + t.pos \div (12 * ST)

\* C21 as claimed: in piano mode the label carries the octave of the lower
\* semitone bin, so from B up to the next C it shows the letter B with the
\* octave of that B, and the octave digit is one higher from the next C on.
C21_OctaveOfLowerBin ==
    (PianoPass /\ Shown(pass)) =>
        /\ s_prev_octave = OctaveOfBin(pass.tone)
        /\ Bin(pass.tone) = 11 => s_prev_note_idx = 6

\* C21: in piano mode the label carries the octave of the lower semitone bin
\* clamped to the digits 0 to 9: from B up to the next C it shows the letter
\* B with the clamped octave of that B, and the digit is one higher from the
\* next C on exactly when that C starts one of the octaves 1 to 9.
C21_OctaveClampedLowerBin ==
    (PianoPass /\ Shown(pass)) =>
        /\ s_prev_octave = constrain(OctaveOfBin(pass.tone), 0, 9)
        /\ Bin(pass.tone) = 11 => s_prev_note_idx = 6

\* C21 witness: the pass after one that showed B 4 renders the next C and
\* shows C 5
C21_Witness ==
    /\ PianoPass /\ pass.prev = "render"
    /\ pass.tone = Num(12 * ST)
    /\ pass.from.note = 6 /\ pass.from.octave = 4
    /\ s_prev_note_idx = 0 /\ s_prev_octave = 5

(***************************************************************************)
(* The public methods called directly, with any frequency and reference:   *)
(* frequency_to_note and display_keyboard_drift with the keyboard drawn,   *)
(* print_drift in each mode.                                               *)
(***************************************************************************)
\* frequency_to_note(freq, ref, &cents, &midi)
MapCall(f, r) ==
    /\ result' = result_after(Against(f, r))
    /\ probe' = [op |-> "map", freq |-> f, ref |-> r, x |-> 0,
                 ret |-> frequency_to_note(Against(f, r)), before |-> result]
    /\ UNCHANGED <<tuner_view_mode, memory_pointer, bitmap_buffer, diffVars,
                   ram, bus, pass>>

\* display_keyboard_drift(freq, ref)
KeyboardCall(f, r) ==
    /\ display_keyboard_drift(Against(f, r))
    /\ probe' = [op |-> "keyboard", freq |-> f, ref |-> r, x |-> 0,
                 ret |-> frequency_to_note(NanTone), before |-> result]
    /\ UNCHANGED tuner_view_mode
    /\ Transmit

\* print_drift(drift), drift in hundredths of a cent: in piano_view mode it
\* only ends a transmission that was never begun
DriftCall(x) ==
    /\ bus' = IF tuner_view_mode = "piano_view" THEN <<>>
              ELSE DriftBus(memory_pointer, DriftVal(x))
    /\ probe' = [op |-> "drift", freq |-> NanTone, ref |-> A440, x |-> x,
                 ret |-> frequency_to_note(NanTone), before |-> result]
    /\ Record("drift", NanTone, NO_COL)
    /\ UNCHANGED <<tuner_view_mode, memory_pointer, bitmap_buffer, diffVars,
                   result>>
    /\ Transmit

\* Frequencies for the mapper: just below and at 1 Hz; MIDI -1 exactly, the
\* tie between -1 and 0, MIDI 0; B -1; the lowest of the band; C4 and the
\* eighths around the tie between C4 and C#4; A4; the highest of the band;
\* C10, C19 and C20.
BAND_LO_POS == -299         \* the lowest pos at or above 30 Hz
BAND_HI_POS == 504          \* the highest pos at or below 10 kHz
MapPos ==
    {ONE_HZ_POS - 1, ONE_HZ_POS, -488, -484, -480, -392, BAND_LO_POS,
     0, 3, 4, 5, A4_POS, BAND_HI_POS, 12 * ST * 6, 12 * ST * 15, 12 * ST * 16}
MapTones == {NanTone, InfTone, NegTone, ZeroTone} \cup {Num(p) : p \in MapPos}
\* References: not a number, infinite, zero, negative, 440 Hz, and 415.3 Hz,
\* a semitone below
BadRefs == {NanTone, InfTone, ZeroTone, NegTone}
Refs == BadRefs \cup {A440, Num(-ST)}
\* The mapper alone: every frequency against 440 Hz, a few against every
\* reference
FewTones == {NanTone, Num(-484), Num(4), Num(A4_POS)}
MapArgs == (MapTones \X {A440}) \cup (FewTones \X Refs)
InitCalls == InitView /\ tuner_view_mode = "piano_view"
NextCalls == \E a \in MapArgs : MapCall(a[1], a[2]) /\ UNCHANGED <<freqVars, uiVars, boardVars>>
SpecCalls == InitCalls /\ [][NextCalls]_vars

\* The mapper with a few frequencies and the piano renderer with A4, each
\* against every reference; the piano renderer also with a frequency of MIDI
\* -1 and with one just below C5
KeyArgs ==
    ({Num(A4_POS)} \X Refs) \cup ({Num(-488), Num(12 * ST - 1)} \X {A440})
NextRefs ==
    \/ \E a \in FewTones \X Refs : MapCall(a[1], a[2]) /\ UNCHANGED <<freqVars, uiVars, boardVars>>
    \/ \E a \in KeyArgs : KeyboardCall(a[1], a[2]) /\ UNCHANGED <<freqVars, uiVars, boardVars>>
SpecRefs == InitCalls /\ [][NextRefs]_vars

\* Drifts from -49.99 to 49.99 cents: nothing, and the two values on either
\* side of every step of the rounding to whole cents that changes the tens
\* or comes next to that
DriftSteps ==
    {0, CENTS_LIMIT} \cup
    {1000 * k + e : k \in 0 .. 4, e \in {49, 50, 849, 850, 949, 950}}
Drifts == DriftSteps \cup {-x : x \in DriftSteps}
NextDrift == \E x \in Drifts : DriftCall(x) /\ UNCHANGED <<freqVars, uiVars, boardVars>>
SpecDrift == InitView /\ [][NextDrift]_vars

(***************************************************************************)
(* The bar of the bar-graph view                                           *)
(***************************************************************************)
DriftDrawn == probe.op = "drift" /\ tuner_view_mode = "bar_graph"
\* trunc(round(cents) / 10) for cents given in hundredths
Tens(x) ==
    LET a == IF x < 0 THEN -x ELSE x
        q == ((a + 50) \div 100) \div 10
    IN  IF x < 0 THEN -q ELSE q
\* The mask with bit k moved to bit 10 - k
RECURSIVE MirrorFrom(_, _)
MirrorFrom(m, k) ==
    IF k > 10 THEN 0
    ELSE (IF Bit(m, Pow2(k)) THEN Pow2(10 - k) ELSE 0) + MirrorFrom(m, k + 1)
\* The mask sent in the drift field
MaskSent == bus[1].val

\* C22: for every drift in [-49.99, 49.99], with d = trunc(round(drift) / 10),
\* the bar mask lies within bits 0 to 10, has the center bit 5 set, and has
\* beside it exactly bits 6 to 5 + d set when d > 0 and bits 5 - |d| to 4 when
\* d < 0; the mask of the opposite drift is its mirror image about bit 5.
C22_BarMask ==
    DriftDrawn =>
        LET d == Tens(probe.x)
        IN  /\ Len(bus) = 1
            /\ d \in -5 .. 5
            /\ MaskSent \in 0 .. Pow2(11) - 1
            /\ Bit(MaskSent, Pow2(5))
            /\ \A k \in (0 .. 10) \ {5} :
                 Bit(MaskSent, Pow2(k)) <=>
                    \/ d > 0 /\ k >= 6 /\ k <= 5 + d
                    \/ d < 0 /\ k >= 5 + d /\ k <= 4
            /\ bar_mask(-probe.x) = MirrorFrom(MaskSent, 0)

\* C22 witness: a drift of -49.99 cents draws the center and the five bits
\* below it
C22_Witness ==
    /\ DriftDrawn /\ probe.x = -CENTS_LIMIT
    /\ MaskSent = Pow2(6) - 1
(***************************************************************************)
(* The pitch mapper                                                        *)
(***************************************************************************)
Mapped == probe.op = "map"
\* A frequency of the measured band, 30 Hz to 10 kHz
Supported(t) == t.kind = "num" /\ t.abs >= BAND_LO_POS /\ t.abs <= BAND_HI_POS
\* 69 + 12 * log2(f / r) in steps of 1 / ST of a semitone, r a number
MidiExact(f, r) == 69 * ST + (f.abs - A4_POS) - r.abs
Dist(a, b) == IF a >= b THEN a - b ELSE b - a
\* The integer nearest to x / ST, of two equally near the one away from zero
NearestAway(x) ==
    LET near == (x \div ST - 1) .. (x \div ST + 2)
    IN  CHOOSE n \in near :
            \A m \in near \ {n} :
                \/ Dist(ST * n, x) < Dist(ST * m, x)
                \/ Dist(ST * n, x) = Dist(ST * m, x) /\ Dist(n, 0) > Dist(m, 0)

\* C23: for every frequency of the supported band and every reference that
\* is a positive number, the MIDI number frequency_to_note returns is
\* 69 + 12 * log2(f / reference) rounded to the nearest integer, a half
\* rounded away from zero.
C23_MidiNearestAway ==
    (Mapped /\ Supported(probe.freq) /\ probe.ref.kind = "num") =>
        probe.ret.midi = NearestAway(MidiExact(probe.freq, probe.ref))

\* C23 witness: the frequency halfway between C4 and C#4 is given MIDI 61
C23_Witness ==
    /\ Mapped /\ probe.freq = Num(ST \div 2) /\ probe.ref = A440
    /\ Supported(probe.freq)
    /\ MidiExact(probe.freq, probe.ref) * 2 = 121 * ST
    /\ probe.ret.midi = 61
\* The call was not rejected: the frequency is finite and at least 1 Hz
Accepted == Mapped /\ ~Rejected(probe.freq)

DecimalDigits == <<"0", "1", "2", "3", "4", "5", "6", "7", "8", "9">>
RECURSIVE Decimal(_)
Decimal(n) ==
    IF n < 0 THEN "-" \o Decimal(-n)
    ELSE IF n < 10 THEN DecimalDigits[n + 1]
    ELSE Decimal(n \div 10) \o DecimalDigits[(n % 10) + 1]
\* table[m mod 12] followed by the digits of floor(m / 12) - 1
NameOf(m) == note_names[(m % 12) + 1] \o Decimal(m \div 12 - 1)
\* The highest MIDI number whose octave, 19, the two characters of result[]
\* left for the octave can show
MIDI_TWO_DIGITS == 251
Named(m) ==
    /\ probe.ret.name = NameOf(m)
    /\ result = probe.ret.name
    /\ m = 69 => probe.ret.name = "A 4"
    /\ m = 60 => probe.ret.name = "C 4"

Worked == Against(probe.freq, probe.ref)
\* display_keyboard_drift went past its sanity checks
KeyboardDrawn ==
    probe.op = "keyboard" /\ finite(probe.freq) /\ ~NotPositive(probe.freq)
\* index and octave name the MIDI number m
Consistent(index, oct, m) ==
    index \in 0 .. 11 /\ 12 * (oct + 1) + index = m

\* C26: for every rounded MIDI number m, negative ones included, the note
\* index and the octave computed by frequency_to_note, and by
\* display_keyboard_drift for the MIDI number of the lower bin, satisfy
\* 0 <= note_index <= 11 and 12 * (octave + 1) + note_index = m.
C26_IndexOctaveConsistent ==
    /\ Accepted =>
         Consistent(note_index(Worked), note_octave(Worked), probe.ret.midi)
    /\ KeyboardDrawn =>
         Consistent(idx(Worked), octave(Worked), midi_base(Worked))

\* Where C26 holds: for the MIDI numbers that are not negative and for the
\* negative multiples of 12
C26_ConsistentFromZero ==
    /\ (Accepted /\ (probe.ret.midi >= 0 \/ probe.ret.midi % 12 = 0)) =>
         Consistent(note_index(Worked), note_octave(Worked), probe.ret.midi)
    /\ (KeyboardDrawn /\ midi_base(Worked) >= 0) =>
         Consistent(idx(Worked), octave(Worked), midi_base(Worked))

\* The two calls that break C26: MIDI -1 is named as MIDI 11
C26_MapperBreaks ==
    /\ Accepted /\ probe.ret.midi = -1
    /\ note_index(Worked) = 11 /\ note_octave(Worked) = -1
    /\ probe.ret.name = "B -1"
C26_KeyboardBreaks ==
    /\ KeyboardDrawn /\ midi_base(Worked) = -1
    /\ idx(Worked) = 11 /\ octave(Worked) = -1
(***************************************************************************)
(* Rejected input and the default reference                                *)
(***************************************************************************)
\* A frequency that is not finite or lies below 1 Hz
NotMappable(t) ==
    \/ t.kind \in {"nan", "inf", "zero", "neg"}
    \/ t.kind = "num" /\ t.abs < ONE_HZ_POS

\* C27: frequency_to_note called with a frequency that is not finite or lies
\* below 1 Hz returns the empty name, cents 0 and MIDI number 0, and leaves
\* the static result buffer as the previous call left it.
C27_RejectedIsNeutral ==
    (Mapped /\ NotMappable(probe.freq)) =>
        /\ probe.ret.name = "" /\ probe.ret.drift = 0 /\ probe.ret.midi = 0
        /\ result = probe.before

\* C27 witness: a call with NaN after a call that composed A 4
C27_Witness ==
    /\ Mapped /\ probe.freq = NanTone
    /\ probe.before = "A 4" /\ result = "A 4"
    /\ probe.ret.name = ""
\* A reference that is not finite, zero or negative
BadReference(r) == r.kind \in {"nan", "inf", "zero", "neg"}
\* The frequency of the call against 440 Hz
At440 == Against(probe.freq, A440)
\* What the piano renderer leaves behind: the cursor column and the label
KeyboardShown == <<s_prev_col, s_prev_note_idx, s_prev_alt, s_prev_octave>>

\* C28: for every valid frequency, with a reference that is not finite, zero
\* or negative frequency_to_note returns, and display_keyboard_drift shows,
\* what they do with a reference of 440 Hz.
C28_BadReferenceIs440 ==
    /\ (Accepted /\ BadReference(probe.ref)) =>
         /\ probe.ret = frequency_to_note(At440)
         /\ result = Composed(At440)
    /\ (KeyboardDrawn /\ BadReference(probe.ref)) =>
         /\ pass.tone = At440
         /\ KeyboardShown = <<col(At440)>> \o Label(At440)

\* C28 witness: 440 Hz drawn on the keyboard with a reference of NaN puts
\* the cursor on the column of A and labels it A 4
C28_Witness ==
    /\ KeyboardDrawn /\ probe.freq = Num(A4_POS) /\ probe.ref = NanTone
    /\ pass.col = 22
    /\ KeyboardShown = <<22, 5, 0, 4>>
(***************************************************************************)
(* SpecSlow: a signal of constant period polled at any pace.  Several      *)
(* edges may arrive between two calls of freq_read, each capture           *)
(* overwriting the one before; once in a period a spurious edge may fall   *)
(* between two genuine ones.                                               *)
(***************************************************************************)
\* rising edges, and freq_read calls, in one behaviour of SpecSlow
MaxSlowEdges == 6
MaxSlowCalls == 4
\* The period of the signal, 100 Hz, and the ticks from a genuine edge to a
\* spurious one
SignalPeriod == 100 * TICKS_MIN
SpurAfter == TICKS_MIN - 50
\* The true time of a stored capture in ticks
TimeOf(e) == e.epoch * WORD + e.icr
\* Ticks from the first edge to the i-th, and whether the i-th edge is one
\* of the signal
Phase(i) == (TimeOf(stored[i]) - TimeOf(stored[1])) % SignalPeriod
Genuine(i) == Phase(i) = 0
\* The ticks to the next edge: a whole period or the spurious edge after a
\* genuine edge, the rest of the period after a spurious one
Spacings ==
    IF Genuine(Len(stored)) THEN {SignalPeriod, SpurAfter}
    ELSE {SignalPeriod - Phase(Len(stored))}

InitSlow ==
    /\ Start /\ Constructed
    /\ lim = [tick |-> 0, edge |-> MaxSlowEdges, poll |-> MaxSlowCalls,
              ms |-> 0]
NextSlow ==
    \/ \E d \in FirstTicks : stored = <<>> /\ EdgeAfter(d)
    \/ stored # <<>> /\ \E d \in Spacings : EdgeAfter(d)
    \/ FreqRead
SpecSlow == InitSlow /\ [][NextSlow]_vars

\* The last call computed a delta between two consumed samples: the edges
\* they come from, and the number of edges from the one to the other
Measured == pc = "idle" /\ call.have /\ ~call.primed /\ call.nth >= 2
EdgeFrom == consumed[call.nth - 1].id
EdgeTo == consumed[call.nth].id
TicksInBand(n) == n >= TICKS_MIN /\ n <= TICKS_MAX

\* C30: every consumed sample, accepted or rejected, becomes the baseline.
\* When k >= 1 edges of a signal of constant period P arrive between two
\* consuming calls the delta is k * P, accepted exactly when k * P lies in
\* the band; after a spurious edge inside a period the next delta is
\* counted from the spurious edge, not from the last genuine one.
C30_BaselineEverySample ==
    /\ (pc = "idle" /\ call.n > 0) =>
         s_prevIcr32 = IF call.have THEN call.cap ELSE call.prevOld
    /\ Measured =>
         LET k == EdgeTo - EdgeFrom
         IN  /\ call.prevOld = stored[EdgeFrom].val
             /\ (\A e \in EdgeFrom .. EdgeTo : Genuine(e)) =>
                  /\ k >= 1
                  /\ TicksNat(call.ticks) = k * SignalPeriod
                  /\ call.inBand <=> TicksInBand(k * SignalPeriod)
             /\ (~Genuine(EdgeFrom) /\ k = 1) =>
                  /\ TicksNat(call.ticks) = SignalPeriod - SpurAfter
                  /\ TicksNat(call.ticks) # SignalPeriod

\* C30 witness: two edges between two calls gave an accepted delta of two
\* periods; later a spurious edge was consumed and rejected, and the delta
\* of the genuine edge after it is the rest of the period
C30_Witness ==
    /\ Measured /\ EdgeTo = EdgeFrom + 1
    /\ ~Genuine(EdgeFrom) /\ Genuine(EdgeTo)
    /\ s_prevIcr32 = stored[EdgeTo].val
    /\ TicksNat(call.ticks) = SignalPeriod - SpurAfter /\ call.inBand
    /\ accepted = <<2 * SignalPeriod, SignalPeriod - SpurAfter>>
(***************************************************************************)
(* display_main.cpp: the pages of the user interface.  One action is one   *)
(* iteration of loop(): the byte received, if any, and then the switch on  *)
(* _display_status.  The page parameter_change_view_temporary_enter is     *)
(* entered and left within one iteration.  The time a message stays, and   *)
(* whether a calibration holds it, are left open: the message may end at   *)
(* any later iteration.  A press that only sends a command to the          *)
(* instrument changes nothing here.                                        *)
(***************************************************************************)
\* Mutant of MenuItems: the bar graph comes before the numeric view.
MenuBarFirst ==
    <<"menu_item_cal_enter", "menu_item_pitch_display_mode_bar",
      "menu_item_pitch_display_mode_numeric",
      "menu_item_pitch_display_mode_keyboard", "menu_item_concert_a_440",
      "menu_item_concert_a_445", "menu_item_concert_a_430",
      "menu_item_concert_a_432">>
MenuItems ==
    <<"menu_item_cal_enter", "menu_item_pitch_display_mode_numeric",
      "menu_item_pitch_display_mode_bar",
      "menu_item_pitch_display_mode_keyboard", "menu_item_concert_a_440",
      "menu_item_concert_a_445", "menu_item_concert_a_430",
      "menu_item_concert_a_432">>
InMenu == \E k \in DOMAIN MenuItems : display_status = MenuItems[k]
MenuIndex == CHOOSE k \in DOMAIN MenuItems : display_status = MenuItems[k]
\* The view mode a menu item stands for
ItemMode ==
    [k \in 2 .. 4 |-> <<"", "numeric", "bar_graph", "piano_view">>[k]]
\* display_menu(status): the text of the item; the concert A in use is not
\* followed, a concert-A item may show either mark
MenuTexts(k) ==
    IF k = 1 THEN {"CAL? "}
    ELSE IF k \in DOMAIN ItemMode
    THEN {<<"", "NUM", "BAR", "PNO">>[k]
            \o (IF tuner_view_mode = ItemMode[k] THEN " <" ELSE "? ")}
    ELSE {<<"A440", "A445", "A430", "A432">>[k - 4] \o m : m \in {"<", "?"}}
\* Texts of display_status_msg(status_msg, ...) and of the register and
\* timbre pages
StatusTexts == {"MUTED", "PLAY!", "-CAL-", "CALOK", "CALER"}
ParameterTexts == {"OCT-1", "OCT+0", "OCT+1", "WAV  ", "WAV 3"}

\* print_string5(str) called on its own
print_string5(str) ==
    /\ bus' = StringBus(str)
    /\ memory_pointer' = StringEnd(str)
    /\ Record("text", NanTone, NO_COL)
    /\ UNCHANGED <<tuner_view_mode, bitmap_buffer, diffVars, result>>

\* case tuner_view of loop(): a render pass
UiRender(t) ==
    /\ display_status = "tuner_view"
    /\ render_pitch_and_drift(t)
    /\ UNCHANGED display_status
    /\ Transmit

\* A status byte: display_status_msg(status_msg, txt); after a calibration
\* error the page is the calibration item of the menu
UiStatus(txt) ==
    /\ print_string5(txt) /\ Transmit
    /\ display_status' = IF txt = "CALER" THEN "menu_item_cal_enter"
                         ELSE "parameter_change_view_temporary_wait"

\* A register or timbre byte: the text is printed by the switch
UiParameter(txt) ==
    /\ print_string5(txt) /\ Transmit
    /\ display_status' = "parameter_change_view_temporary_wait"

\* case parameter_change_view_temporary_wait: the message has had its time
UiMessageEnds ==
    /\ display_status = "parameter_change_view_temporary_wait"
    /\ RestoreView /\ Transmit
    /\ display_status' = "tuner_view"

\* handle_user_action(false) in tuner_view: display_menu(menu_item_cal_enter)
UiEnterMenu ==
    /\ display_status = "tuner_view"
    /\ \E txt \in MenuTexts(1) : print_string5(txt) /\ Transmit
    /\ display_status' = MenuItems[1]

\* handle_user_action(true) in the menu: the next item, or the tuner view
\* after the last
UiShortPress ==
    /\ InMenu
    /\ IF MenuIndex < Len(MenuItems)
       THEN /\ \E txt \in MenuTexts(MenuIndex + 1) :
                    print_string5(txt) /\ Transmit
            /\ display_status' = MenuItems[MenuIndex + 1]
       ELSE /\ RestoreView /\ Transmit
            /\ display_status' = "tuner_view"

\* handle_user_action(false) on a view-mode item: set_tuner_view_mode(mode),
\* then restore_tuner_view(), which draws the view a second time
UiApplyMode ==
    /\ InMenu /\ MenuIndex \in DOMAIN ItemMode
    /\ tuner_view_mode' = ItemMode[MenuIndex]
    /\ bitmap_buffer' = Picture(ItemMode[MenuIndex])
    /\ bus' = UpdateBus(ItemMode[MenuIndex]) \o UpdateBus(ItemMode[MenuIndex])
    /\ memory_pointer' = 0
    /\ IF ItemMode[MenuIndex] = "piano_view" THEN KeyboardResetsMemory
       ELSE UNCHANGED diffVars
    /\ Record("restore", NanTone, NO_COL)
    /\ UNCHANGED result
    /\ Transmit
    /\ display_status' = "tuner_view"

\* handle_user_action(false) on a concert-A item: restore_tuner_view()
UiApplyConcertA ==
    /\ InMenu /\ MenuIndex > 4
    /\ RestoreView /\ Transmit
    /\ display_status' = "tuner_view"

\* What the loop renders: no estimate yet, silence, C4 and A4
UiTones == {NanTone, ZeroTone, Num(0), Num(A4_POS)}

InitUI == InitView /\ tuner_view_mode = "piano_view"
NextUI ==
    \/ \E t \in UiTones : UiRender(t) /\ UNCHANGED <<freqVars, probe, boardVars>>
    \/ \E txt \in StatusTexts : UiStatus(txt) /\ UNCHANGED <<freqVars, probe, boardVars>>
    \/ \E txt \in ParameterTexts :
            UiParameter(txt) /\ UNCHANGED <<freqVars, probe, boardVars>>
    \/ UiMessageEnds /\ UNCHANGED <<freqVars, probe, boardVars>>
    \/ UiEnterMenu /\ UNCHANGED <<freqVars, probe, boardVars>>
    \/ UiShortPress /\ UNCHANGED <<freqVars, probe, boardVars>>
    \/ UiApplyMode /\ UNCHANGED <<freqVars, probe, boardVars>>
    \/ UiApplyConcertA /\ UNCHANGED <<freqVars, probe, boardVars>>
SpecUI == InitUI /\ [][NextUI]_vars

\* A render pass in piano mode with a valid frequency
ValidPianoPass == PianoPass /\ finite(pass.tone) /\ ~BelowFloor(pass.tone)
\* The device shows the bytes of the keyboard image and the cursor
DeviceShowsKeyboard == \A i \in 0 .. 31 : ram[i] = bitmap_buffer[i]

\* C29: in piano mode, after any sequence of render passes, status messages
\* and menu texts, at the end of every render pass with a valid frequency
\* the device RAM bytes 0 to 31 equal the framebuffer.
C29_DeviceMirrorsFramebuffer == ValidPianoPass => DeviceShowsKeyboard

\* Where C29 holds: a render pass never follows a text directly, and at a
\* valid pass that follows a redraw the device shows the framebuffer
C29_MirrorAfterRedraw ==
    /\ Rendered => pass.prev # "text"
    /\ (ValidPianoPass /\ pass.prev \in {"restore", "mode"})
            => DeviceShowsKeyboard

\* The pass that breaks C29: after the placeholder of a silent pass, a valid
\* pass leaves the blank of the placeholder where the framebuffer has a key
C29_PlaceholderStays ==
    /\ ValidPianoPass /\ pass.prev = "render"
    /\ ram[8] = 0 /\ bitmap_buffer[8] = 255
(***************************************************************************)
(* The cursor in the framebuffer                                           *)
(***************************************************************************)
\* The keyboard picture with the pixel of column c in row 6 toggled
WithCursor(c) ==
    LET b == col_to_buf_row6(c)
    IN  [font_keyboard EXCEPT ![b[1]] = Xor(@, b[2])]
\* The bits in which the framebuffer differs from the keyboard picture
Toggled ==
    {p \in (0 .. HT_RAM_LAST_ADDRESS - 1) \X (0 .. 7) :
        Bit(bitmap_buffer[p[1]], Pow2(p[2]))
            # Bit(font_keyboard[p[1]], Pow2(p[2]))}

\* C31: in piano mode, after any sequence of keyboard redraws and keyboard
\* renders, the framebuffer is the keyboard picture with exactly one bit
\* toggled, the one of row 6 for column s_prev_col, when s_prev_col is in
\* 0..27, and the keyboard picture itself when s_prev_col is -1; at most one
\* cursor pixel is toggled at any time.
C31_OneCursorPixel ==
    tuner_view_mode = "piano_view" =>
        /\ s_prev_col = NO_COL \/ s_prev_col \in 0 .. COL_LAST
        /\ s_prev_col = NO_COL => bitmap_buffer = font_keyboard
        /\ s_prev_col \in 0 .. COL_LAST =>
             /\ bitmap_buffer = WithCursor(s_prev_col)
             /\ Toggled = {<<(s_prev_col \div 8) * 8 + 6, 7 - (s_prev_col % 8)>>}
        /\ Cardinality(Toggled) <= 1

\* C31 witness: the cursor went from C (column 2) to A (column 22), the
\* pixel of column 2 is dark again and the one of column 22 is lit
C31_Witness ==
    /\ PianoPass /\ pass.prev = "render"
    /\ pass.from.col = 2 /\ pass.from.buf = WithCursor(2)
    /\ s_prev_col = 22 /\ bitmap_buffer = WithCursor(22)
    /\ bitmap_buffer[6] = 0 /\ bitmap_buffer[22] = 2
(***************************************************************************)
(* The label of a semitone                                                 *)
(***************************************************************************)
\* The letters of font_tall6_notes_condensed by note index, and the mark of
\* an alteration
Letters == <<"C", "D", "E", "F", "G", "A", "B">>
AlterMark(a) == IF a = 1 THEN "#" ELSE IF a = 0 THEN " " ELSE "b"
\* The label as text: the letter and the mark of the alteration
LabelText == Letters[s_prev_note_idx + 1] \o AlterMark(s_prev_alt)
\* The pass rendered a frequency that lies on a semitone; the semitone
\* counted from C
OnSemitone == PianoPass /\ Shown(pass) /\ pass.tone.pos % ST = 0
Semitone == (pass.tone.pos \div ST) % 12

\* C32: when the frequency lies exactly on an equal-tempered semitone s
\* (0..11 above C), the cursor is at column note_pixel_center[s] and the
\* label derived from the column tables names that semitone: the natural
\* letter for C, D, E, F, G, A, B and the sharp of the letter below for the
\* five accidentals.
C32_SemitoneColumnAndLabel ==
    OnSemitone =>
        /\ pass.col = <<2, 4, 6, 8, 10, 14, 16, 18, 20, 22, 24, 26>>[Semitone + 1]
        /\ s_prev_col = pass.col
        /\ s_prev_note_idx \in 0 .. 6
        /\ LabelText = note_names[Semitone + 1]
        /\ s_prev_alt = (IF Semitone \in {1, 3, 6, 8, 10} THEN 1 ELSE 0)

\* C32 witness: F sharp is shown at column 16 as F with a sharp
C32_Witness ==
    /\ OnSemitone /\ pass.tone = Num(6 * ST)
    /\ s_prev_col = 16 /\ s_prev_note_idx = 3 /\ s_prev_alt = 1
    /\ LabelText = "F#"
(***************************************************************************)
(* display_main.cpp: the settings in the EEPROM                            *)
(***************************************************************************)
\* 300.0f, 600.0f and the values of the concert-A menu items
CONCERT_A_MIN == <<0, 0, 150, 67>>
CONCERT_A_MAX == <<0, 0, 22, 68>>
A445 == <<0, 128, 222, 67>>
A430 == <<0, 0, 215, 67>>
A432 == <<0, 0, 216, 67>>

\* Sign, and exponent and fraction taken as one number, of a binary32 value
F32Sign(x) == x[4] \div 128
F32Mag(x) == (x[4] % 128) * 16777216 + x[3] * 65536 + x[2] * 256 + x[1]
\* The exponent is all ones and the fraction is not zero
F32IsNaN(x) ==
    /\ x[4] % 128 = 127 /\ x[3] >= 128
    /\ x[3] % 128 # 0 \/ x[2] # 0 \/ x[1] # 0
\* The place of a value that is not NaN among all of them: the two zeros
\* share one
F32Key(x) == IF F32Sign(x) = 1 THEN -F32Mag(x) ELSE F32Mag(x)
\* x < y: false when either is NaN
F32Lt(x, y) == ~F32IsNaN(x) /\ ~F32IsNaN(y) /\ F32Key(x) < F32Key(y)

\* The enumerators of tuner_view_mode_t, and a byte read as int8_t
ModeOf == <<"numeric", "bar_graph", "piano_view">>
ModeByte(m) == CHOOSE b \in 0 .. 2 : ModeOf[b + 1] = m
tuner_view_mode_t_last == 3
Int8(b) == IF b >= 128 THEN b - 256 ELSE b

\* EEPROM.get and EEPROM.put: the bytes of the object, one cell each
EepromGetFloat(mem, addr) == [k \in 1 .. 4 |-> mem[addr + k - 1]]
EepromPutFloat(mem, addr, x) ==
    [a \in DOMAIN mem |->
        IF a >= addr /\ a < addr + 4 THEN x[a - addr + 1] ELSE mem[a]]
EepromPutMode(mem, addr, m) == [mem EXCEPT ![addr] = ModeByte(m)]

EEPROM_TUNER_VIEW_MODE_ADDRESS == 0
EEPROM_CONCERT_REF_A_ADDRESS == 1

\* settings_read(): the mode and the reference it takes from the memory
StoredMode(mem) ==
    LET tvm == Int8(mem[EEPROM_TUNER_VIEW_MODE_ADDRESS])
    IN  IF tvm < 0 \/ tvm >= tuner_view_mode_t_last THEN "piano_view"
        ELSE ModeOf[tvm + 1]
StoredRef(mem) ==
    LET ref_a == EepromGetFloat(mem, EEPROM_CONCERT_REF_A_ADDRESS)
    IN  IF F32Lt(ref_a, CONCERT_A_MIN) \/ F32Lt(CONCERT_A_MAX, ref_a)
        THEN CONCERT_A_DEFAULT ELSE ref_a

(***************************************************************************)
(* display_main.cpp: setup(), one action for each call it makes            *)
(***************************************************************************)
\* Stored view-mode bytes: the three modes, the sentinel, the largest int8_t,
\* the smallest, an erased cell
ModeBytes == {0, 1, 2, 3, 127, 128, ERASED}
\* Stored references: erased cells (a NaN), another NaN, 440, 300 and the
\* value just below, 600 and the value just above, the two infinities, the
\* two zeros, 445, -440
RefPatterns ==
    {<<ERASED, ERASED, ERASED, ERASED>>, <<0, 0, 192, 127>>, CONCERT_A_DEFAULT,
     CONCERT_A_MIN, <<255, 255, 149, 67>>, CONCERT_A_MAX, <<1, 0, 22, 68>>,
     <<0, 0, 128, 127>>, <<0, 0, 128, 255>>, <<0, 0, 0, 0>>, <<0, 0, 0, 128>>,
     A445, <<0, 0, 220, 195>>}
Memories == {<<b>> \o r : b \in ModeBytes, r \in RefPatterns}

\* Power-on: the static initialisers, the constructor of the driver object,
\* any content of the EEPROM
PowerOn ==
    /\ Start
    /\ lim = [tick |-> 0, edge |-> 0, poll |-> 0, ms |-> 0]
    /\ tuner_view_mode = "piano_view"
    /\ memory_pointer = 0
    /\ bitmap_buffer = [i \in 0 .. HT_RAM_LAST_ADDRESS - 1 |-> 0]
    /\ s_prev_col = NO_COL /\ s_prev_note_idx = NO_NOTE
    /\ s_prev_alt = NO_ALT /\ s_prev_octave = NO_OCTAVE
    /\ result = ""
    /\ ram = [i \in 0 .. HT_RAM_LAST_ADDRESS - 1 |-> 0]
    /\ bus = <<>> /\ pass = NoPass /\ probe = NoProbe
    /\ display_status = "tuner_view"
    /\ theremin_state = "muted" /\ parameter_display_status = "none"
    /\ parameter_value = 0 /\ concert_reference_a = CONCERT_A_DEFAULT
    /\ blink_setting = "BLINK_OFF"
    /\ tuner_view_update_old_tick = 0 /\ parameter_view_update_old_tick = 0
    /\ loop_ms = 0
    /\ board_pc = "settings_read" /\ wire_begun = FALSE
    /\ \E mem \in Memories : eeprom = [a \in 0 .. 4 |-> mem[a + 1]]
    /\ to_theremin = <<>> /\ to_display = <<>>
    /\ instrument_state = "muted" /\ button_state = "button_state_t_released"
    /\ ui_event = NoEvent

setupKeeps ==
    <<freqVars, probe, uiVars, loopVars, eeprom, lineVars, ui_event>>

\* settings_read(): set_tuner_view_mode draws the view.  Wire.begin() has not
\* run: the device may or may not take what is sent.
SetupSettingsRead ==
    /\ board_pc = "settings_read"
    /\ SetMode(StoredMode(eeprom))
    /\ concert_reference_a' = StoredRef(eeprom)
    /\ ram' \in {ram, Written(ram, bus', bitmap_buffer')}
    /\ board_pc' = "begin"
    /\ UNCHANGED <<setupKeeps, wire_begun>>

\* ht_display.begin(): Wire.begin(), then UpdateRegisters(), which sends the
\* settings of the object and clears the display
SetupBegin ==
    /\ board_pc = "begin"
    /\ wire_begun' = TRUE
    /\ bitmap_buffer' = BlankBuffer
    /\ bus' = ClearBus
    /\ memory_pointer' = 0
    /\ Record("begin", NanTone, NO_COL)
    /\ Transmit
    /\ board_pc' = "display_ui_init"
    /\ UNCHANGED <<setupKeeps, tuner_view_mode, diffVars, result,
                   concert_reference_a>>

\* display_ui_init(): the logo is sent from the framebuffer and faded in,
\* then update_display() draws the view
LogoBus ==
    <<Tx(0, WIRE_CHUNK, "logo", "", 0),
      Tx(2 * WIRE_CHUNK, HT_RAM_LAST_ADDRESS - WIRE_CHUNK, "logo", "", 0)>>
SetupUiInit ==
    /\ board_pc = "display_ui_init"
    /\ bitmap_buffer' = Picture(tuner_view_mode)
    /\ bus' = LogoBus \o UpdateBus(tuner_view_mode)
    /\ memory_pointer' = 0
    /\ IF tuner_view_mode = "piano_view" THEN KeyboardResetsMemory
       ELSE UNCHANGED diffVars
    /\ Record("restore", NanTone, NO_COL)
    /\ Transmit
    /\ board_pc' = "freq_init"
    /\ UNCHANGED <<setupKeeps, tuner_view_mode, result, concert_reference_a,
                   wire_begun>>

\* freq_init(), which leaves the measurement as Start has it, and
\* _display_status = tuner_view
SetupFreqInit ==
    /\ board_pc = "freq_init"
    /\ display_status' = "tuner_view"
    /\ board_pc' = "loop"
    /\ UNCHANGED <<freqVars, tuner_view_mode, memory_pointer, bitmap_buffer,
                   diffVars, result, ram, bus, pass, probe, loopVars,
                   settingVars, lineVars, wire_begun, ui_event>>

NextSetup ==
    \/ SetupSettingsRead
    \/ SetupBegin
    \/ SetupUiInit
    \/ SetupFreqInit
SpecSetup == PowerOn /\ [][NextSetup]_vars

\* C33: during setup() no display bus transaction is issued before
\* HT1635::begin() has initialised the bus.
C33_NoBusBeforeBegin == ~wire_begun => bus = <<>>

\* The state that breaks C33: settings_read has sent the clearing of the
\* display and the keyboard, and Wire.begin() has yet to run
C33_SentBeforeBegin ==
    /\ board_pc = "begin" /\ ~wire_begun
    /\ pass.op = "mode" /\ Len(bus) = 7
    /\ bus[1] = ParamTx(0) /\ bus[7].what = "bitmap"

\* settings_read has run
SettingsRead == board_pc # "settings_read"
\* 300 <= x <= 600
InConcertRange(x) ==
    ~F32IsNaN(x) /\ ~F32Lt(x, CONCERT_A_MIN) /\ ~F32Lt(CONCERT_A_MAX, x)
\* What the EEPROM holds
StoredByte == eeprom[EEPROM_TUNER_VIEW_MODE_ADDRESS]
StoredFloat == EepromGetFloat(eeprom, EEPROM_CONCERT_REF_A_ADDRESS)

\* C34: after settings_read, for every stored content (erased memory and a
\* stored NaN included), the view mode is one of numeric, bar-graph and piano
\* and the concert-A reference lies within [300, 600] Hz; an invalid stored
\* mode gives the piano view and an invalid stored reference gives 440 Hz.
C34_SettingsValid ==
    SettingsRead =>
        /\ tuner_view_mode \in Modes
        /\ StoredByte \notin 0 .. 2 => tuner_view_mode = "piano_view"
        /\ InConcertRange(concert_reference_a)
        /\ ~InConcertRange(StoredFloat) =>
               concert_reference_a = CONCERT_A_DEFAULT

\* Where C34 holds: the mode is always valid, and the reference is within
\* the range or the default unless a NaN is stored
C34_ValidUnlessNaN ==
    SettingsRead =>
        /\ tuner_view_mode \in Modes
        /\ StoredByte \notin 0 .. 2 => tuner_view_mode = "piano_view"
        /\ StoredByte \in 0 .. 2 => tuner_view_mode = ModeOf[StoredByte + 1]
        /\ ~F32IsNaN(StoredFloat) =>
             /\ InConcertRange(concert_reference_a)
             /\ concert_reference_a =
                    (IF InConcertRange(StoredFloat) THEN StoredFloat
                     ELSE CONCERT_A_DEFAULT)

\* The state that breaks C34: with an erased EEPROM the reference in use is
\* the NaN the four erased cells spell
C34_ErasedGivesNaN ==
    /\ board_pc = "loop"
    /\ \A a \in 0 .. 4 : eeprom[a] = ERASED
    /\ tuner_view_mode = "piano_view"
    /\ concert_reference_a = <<ERASED, ERASED, ERASED, ERASED>>
    /\ F32IsNaN(concert_reference_a)
(***************************************************************************)
(* display_main.cpp: loop().  An iteration takes two steps: the byte       *)
(* received, if any, is handled; then the switch on _display_status runs.  *)
(* millis() advances between iterations.  The device RAM is not followed.  *)
(* What becomes of the bytes on the serial line is left to the             *)
(* specification.                                                          *)
(***************************************************************************)
STATE_CMD_CALIBRATION == 22
STATE_CMD_CALIBRATION_SUCCESS == 6
STATE_CMD_CALIBRATION_ERROR == 21
STATE_CMD_MUTE == 4
STATE_CMD_UNMUTE == 2
STATE_CMD_BUTTON_SHORT_PRESS == 7
STATE_CMD_BUTTON_LONG_PRESS == 8
STATE_CMD_WAVEFORM_BASE == 128
STATE_CMD_REGISTER_LOW == 16
STATE_CMD_REGISTER_MID == 17
STATE_CMD_REGISTER_HIGH == 18
UI_UPDATE_DELAY_MS == 100
UI_TEMPORARY_PARAMETER_DISPLAY_MS == 1800
\* Serial.available() is 0
NO_BYTE == -1

drvVars ==
    <<tuner_view_mode, memory_pointer, bitmap_buffer, diffVars, result, bus,
      pass>>

\* fabsf(_concert_reference_a - item) < 0.01f for an item between 256 and
\* 512, where binary32 values lie 2^-15 apart: at most 327 values away
F32Near(x, item) ==
    /\ ~F32IsNaN(x) /\ F32Sign(x) = 0
    /\ Dist(F32Mag(x), F32Mag(item)) <= 327
\* Mutant of ItemRef: the items of 445 Hz and 430 Hz stand for each other's
\* reference.
ItemRefSwapped ==
    [k \in 5 .. 8 |-> <<CONCERT_A_DEFAULT, A430, A445, A432>>[k - 4]]
\* The reference a concert-A item stands for
ItemRef == [k \in 5 .. 8 |-> <<CONCERT_A_DEFAULT, A445, A430, A432>>[k - 4]]
\* display_menu(status): the text of item k
MenuText(k) ==
    IF k = 1 THEN "CAL? "
    ELSE IF k \in DOMAIN ItemMode
    THEN <<"", "NUM", "BAR", "PNO">>[k]
            \o (IF tuner_view_mode = ItemMode[k] THEN " <" ELSE "? ")
    ELSE <<"A440", "A445", "A430", "A432">>[k - 4]
            \o (IF F32Near(concert_reference_a, ItemRef[k]) THEN "<" ELSE "?")

\* What the iteration started from
IsRegister(b) == b >= STATE_CMD_REGISTER_LOW /\ b <= STATE_CMD_REGISTER_HIGH
IsWaveform(b) ==
    b >= STATE_CMD_WAVEFORM_BASE /\ b <= STATE_CMD_WAVEFORM_BASE + 9
\* The state bytes: the mirrored state, the text, the blink mode, the page
StatusBytes ==
    {STATE_CMD_MUTE, STATE_CMD_UNMUTE, STATE_CMD_CALIBRATION,
     STATE_CMD_CALIBRATION_SUCCESS, STATE_CMD_CALIBRATION_ERROR}
\* The bytes that show a message
IsMessage(b) == b \in StatusBytes \/ IsRegister(b) \/ IsWaveform(b)
Event(b, t) ==
    [op |-> "byte", byte |-> b, page |-> display_status,
     state |-> theremin_state,
     msg |-> IF IsMessage(b) THEN b ELSE ui_event.msg,
     since |-> IF IsMessage(b) THEN t ELSE ui_event.since]

\* display_menu(item k)
display_menu(k) ==
    /\ display_status' = MenuItems[k]
    /\ parameter_display_status' = "menu_txt"
    /\ print_string5(MenuText(k))
    /\ UNCHANGED <<settingVars, to_theremin>>

\* set_tuner_view_mode(m) followed by restore_tuner_view(): the view is
\* drawn twice
set_and_restore(m) ==
    /\ tuner_view_mode' = m
    /\ bitmap_buffer' = Picture(m)
    /\ bus' = UpdateBus(m) \o UpdateBus(m)
    /\ memory_pointer' = 0
    /\ IF m = "piano_view" THEN KeyboardResetsMemory ELSE UNCHANGED diffVars
    /\ Record("restore", NanTone, NO_COL)
    /\ UNCHANGED result

\* The command a short press in the tuner view sends
PressCommand(st) ==
    IF st = "muted" THEN <<STATE_CMD_UNMUTE>>
    ELSE IF st = "playing" THEN <<STATE_CMD_MUTE>>
    ELSE <<>>

\* handle_user_action(shortPress)
handle_user_action(shortPress) ==
    IF display_status = "tuner_view"
    THEN IF shortPress
         THEN /\ to_theremin' = to_theremin \o PressCommand(theremin_state)
              /\ UNCHANGED <<display_status, parameter_display_status,
                             settingVars, drvVars>>
         ELSE display_menu(1)
    ELSE IF ~InMenu
    THEN UNCHANGED <<display_status, parameter_display_status, settingVars,
                     drvVars, to_theremin>>
    ELSE IF shortPress
    THEN IF MenuIndex < Len(MenuItems)
         THEN display_menu(MenuIndex + 1)
         ELSE /\ display_status' = "tuner_view"
              /\ RestoreView
              /\ UNCHANGED <<parameter_display_status, settingVars,
                             to_theremin>>
    ELSE IF MenuIndex = 1
    THEN /\ to_theremin' = Append(to_theremin, STATE_CMD_CALIBRATION)
         /\ UNCHANGED <<display_status, parameter_display_status,
                        settingVars, drvVars>>
    ELSE IF MenuIndex \in DOMAIN ItemMode
    THEN /\ set_and_restore(ItemMode[MenuIndex])
         /\ eeprom' = EepromPutMode(eeprom, EEPROM_TUNER_VIEW_MODE_ADDRESS,
                                    ItemMode[MenuIndex])
         /\ display_status' = "tuner_view"
         /\ UNCHANGED <<parameter_display_status, concert_reference_a,
                        to_theremin>>
    ELSE /\ concert_reference_a' = ItemRef[MenuIndex]
         /\ eeprom' = EepromPutFloat(eeprom, EEPROM_CONCERT_REF_A_ADDRESS,
                                     ItemRef[MenuIndex])
         /\ display_status' = "tuner_view"
         /\ RestoreView
         /\ UNCHANGED <<parameter_display_status, to_theremin>>

\* Mutant of MirrorOf: the echoes of mute and unmute are taken for each other.
MirrorSwapped(b) ==
    IF b \in {STATE_CMD_MUTE, STATE_CMD_CALIBRATION_SUCCESS} THEN "playing"
    ELSE IF b \in {STATE_CMD_UNMUTE, STATE_CMD_CALIBRATION_ERROR} THEN "muted"
    ELSE "calibrating"
MirrorOf(b) ==
    IF b \in {STATE_CMD_UNMUTE, STATE_CMD_CALIBRATION_SUCCESS} THEN "playing"
    ELSE IF b \in {STATE_CMD_MUTE, STATE_CMD_CALIBRATION_ERROR} THEN "muted"
    ELSE "calibrating"
StatusText(b) ==
    CASE b = STATE_CMD_MUTE -> "MUTED"
      [] b = STATE_CMD_UNMUTE -> "PLAY!"
      [] b = STATE_CMD_CALIBRATION -> "-CAL-"
      [] b = STATE_CMD_CALIBRATION_SUCCESS -> "CALOK"
      [] OTHER -> "CALER"
BlinkAfter(b) ==
    IF b = STATE_CMD_CALIBRATION THEN "BLINK_1Hz"
    ELSE IF b \in {STATE_CMD_CALIBRATION_SUCCESS, STATE_CMD_CALIBRATION_ERROR}
    THEN "BLINK_OFF"
    ELSE blink_setting
PageAfter(b) ==
    IF b = STATE_CMD_CALIBRATION_ERROR THEN "menu_item_cal_enter"
    ELSE "parameter_change_view_temporary_enter"

\* if (Serial.available()) { b = Serial.read(); switch (b) ... }
Receive(b) ==
    IF b \in StatusBytes
    THEN /\ theremin_state' = MirrorOf(b)
         /\ parameter_display_status' = "status_msg"
         /\ display_status' = PageAfter(b)
         /\ print_string5(StatusText(b))
         /\ blink_setting' = BlinkAfter(b)
         /\ UNCHANGED <<parameter_value, settingVars, to_theremin>>
    ELSE IF b \in {STATE_CMD_BUTTON_SHORT_PRESS, STATE_CMD_BUTTON_LONG_PRESS}
    THEN /\ handle_user_action(b = STATE_CMD_BUTTON_SHORT_PRESS)
         /\ UNCHANGED <<theremin_state, parameter_value, blink_setting>>
    ELSE IF IsRegister(b) \/ IsWaveform(b)
    THEN /\ display_status' = "parameter_change_view_temporary_enter"
         /\ parameter_display_status' =
                (IF IsRegister(b) THEN "octave" ELSE "timbre")
         /\ parameter_value' =
                (IF IsRegister(b) THEN b ELSE b - STATE_CMD_WAVEFORM_BASE)
         /\ UNCHANGED <<theremin_state, blink_setting, settingVars,
                        to_theremin, drvVars>>
    ELSE UNCHANGED <<display_status, theremin_state, parameter_display_status,
                     parameter_value, blink_setting, settingVars, to_theremin,
                     drvVars>>

\* The first half of an iteration: raw = freq_read(), t = millis(), and the
\* byte received, if any.  dt is the time since the iteration before.
MaxLoopMs == 1801
LoopRead(b, dt) ==
    /\ board_pc = "loop"
    /\ loop_ms + dt <= MaxLoopMs
    /\ loop_ms' = loop_ms + dt
    /\ ui_event' = Event(b, loop_ms + dt)
    /\ board_pc' = "switch"
    /\ Receive(b)
    /\ UNCHANGED <<freqVars, probe, ram, tuner_view_update_old_tick,
                   parameter_view_update_old_tick, wire_begun>>

\* The text of a register or timbre page
ParameterText ==
    IF parameter_display_status = "octave"
    THEN (IF parameter_value = STATE_CMD_REGISTER_LOW THEN "OCT-1"
          ELSE IF parameter_value = STATE_CMD_REGISTER_MID THEN "OCT+0"
          ELSE "OCT+1")
    ELSE "WAV " \o DecimalDigits[(parameter_value % 10) + 1]

\* The message has had its time
\* Mutant of MessageOver: the message ends at 1800 ms.
MessageOverAtLimit ==
    loop_ms - parameter_view_update_old_tick
        >= UI_TEMPORARY_PARAMETER_DISPLAY_MS
MessageOver ==
    loop_ms - parameter_view_update_old_tick
        > UI_TEMPORARY_PARAMETER_DISPLAY_MS
\* The message is held
Held == parameter_display_status = "menu_txt" \/ theremin_state = "calibrating"

\* The second half: switch (_display_status), raw being the tone t
LoopSwitch(t) ==
    /\ board_pc = "switch"
    /\ board_pc' = "loop"
    /\ UNCHANGED <<freqVars, probe, ram, theremin_state, parameter_value,
                   blink_setting, loop_ms, settingVars, wire_begun>>
    /\ ui_event' = [op |-> "done", msg |-> ui_event.msg,
                    since |-> ui_event.since]
    /\ CASE display_status = "tuner_view" ->
              /\ IF loop_ms - tuner_view_update_old_tick > UI_UPDATE_DELAY_MS
                 THEN /\ tuner_view_update_old_tick' = loop_ms
                      /\ render_pitch_and_drift(t)
                 ELSE UNCHANGED <<tuner_view_update_old_tick, drvVars>>
              /\ UNCHANGED <<display_status, parameter_display_status,
                             parameter_view_update_old_tick>>
         [] display_status = "parameter_change_view_temporary_enter" ->
              /\ parameter_view_update_old_tick' = loop_ms
              /\ IF parameter_display_status \in {"octave", "timbre"}
                 THEN print_string5(ParameterText)
                 ELSE UNCHANGED drvVars
              /\ display_status' = "parameter_change_view_temporary_wait"
              /\ UNCHANGED <<parameter_display_status,
                             tuner_view_update_old_tick>>
         [] display_status = "parameter_change_view_temporary_wait" ->
              /\ IF ~Held /\ MessageOver
                 THEN /\ display_status' = "tuner_view"
                      /\ parameter_display_status' = "none"
                      /\ RestoreView
                 ELSE UNCHANGED <<display_status, parameter_display_status,
                                  drvVars>>
              /\ UNCHANGED <<tuner_view_update_old_tick,
                             parameter_view_update_old_tick>>
         [] OTHER ->
              UNCHANGED <<display_status, parameter_display_status, drvVars,
                          tuner_view_update_old_tick,
                          parameter_view_update_old_tick>>

(***************************************************************************)
(* The display board alone: setup(), then loop() with the presses          *)
(* received (the menu), or with any byte received (the messages).  The     *)
(* serial line carries away what an iteration writes before the next one.  *)
(* A power cycle starts setup() again with the EEPROM as it is.            *)
(***************************************************************************)
\* A byte of the debug text the instrument writes
DEBUG_TEXT == 79
PressBytes == {STATE_CMD_BUTTON_SHORT_PRESS, STATE_CMD_BUTTON_LONG_PRESS}
\* Bytes received: the state bytes, the presses, a register and a timbre
\* byte, a byte of debug text
LoopBytes ==
    StatusBytes \cup PressBytes
        \cup {STATE_CMD_REGISTER_LOW, STATE_CMD_WAVEFORM_BASE + 3, DEBUG_TEXT}
\* Time between two iterations of loop(), in ms
MenuSteps == {0, 901}
LoopSteps == {0, 1800, 1801}
\* What the loop renders
LoopTones == {Num(A4_POS)}

instrumentVars == <<to_display, instrument_state, button_state>>

LoopReceives(b, steps) ==
    /\ \E dt \in steps : LoopRead(b, dt)
    /\ UNCHANGED instrumentVars
LoopSwitches ==
    /\ \E t \in LoopTones : LoopSwitch(t)
    /\ to_theremin' = <<>>
    /\ UNCHANGED instrumentVars
\* Power off and on: the RAM of the board is initialised, the EEPROM stays
PowerCycle ==
    /\ board_pc = "loop"
    /\ tuner_view_mode' = "piano_view"
    /\ memory_pointer' = 0
    /\ bitmap_buffer' = [i \in 0 .. HT_RAM_LAST_ADDRESS - 1 |-> 0]
    /\ Sentinels
    /\ result' = ""
    /\ ram' = [i \in 0 .. HT_RAM_LAST_ADDRESS - 1 |-> 0]
    /\ bus' = <<>> /\ pass' = NoPass
    /\ display_status' = "tuner_view"
    /\ theremin_state' = "muted" /\ parameter_display_status' = "none"
    /\ parameter_value' = 0 /\ concert_reference_a' = CONCERT_A_DEFAULT
    /\ blink_setting' = "BLINK_OFF"
    /\ tuner_view_update_old_tick' = 0 /\ parameter_view_update_old_tick' = 0
    /\ loop_ms' = 0
    /\ board_pc' = "settings_read" /\ wire_begun' = FALSE
    /\ to_theremin' = <<>>
    /\ ui_event' = [op |-> "power", mode |-> tuner_view_mode,
                    ref |-> concert_reference_a, msg |-> -1, since |-> 0]
    /\ UNCHANGED <<freqVars, probe, eeprom, instrumentVars>>

\* The EEPROM at the first power-on: erased, or 445 Hz and the bar graph
FirstMemories ==
    {[a \in 0 .. 4 |-> ERASED], [a \in 0 .. 4 |-> (<<1>> \o A445)[a + 1]]}
InitMenu == PowerOn /\ eeprom \in FirstMemories
NextMenu ==
    \/ NextSetup
    \/ LoopReceives(NO_BYTE, MenuSteps)
    \/ LoopReceives(STATE_CMD_BUTTON_SHORT_PRESS, MenuSteps)
    \/ LoopReceives(STATE_CMD_BUTTON_LONG_PRESS, MenuSteps)
    \/ LoopSwitches
    \/ PowerCycle
SpecMenu == InitMenu /\ [][NextMenu]_vars

InitLoop == PowerOn /\ eeprom = [a \in 0 .. 4 |-> (<<1>> \o A445)[a + 1]]
NextLoop ==
    \/ NextSetup
    \/ LoopReceives(NO_BYTE, LoopSteps)
    \/ \E b \in StatusBytes : LoopReceives(b, LoopSteps)
    \/ \E b \in LoopBytes \ StatusBytes : LoopReceives(b, LoopSteps)
    \/ LoopSwitches
SpecLoop == InitLoop /\ [][NextLoop]_vars

\* The handling of a received byte: the first half of an iteration
ByteStep == board_pc = "loop" /\ board_pc' = "switch"
\* The pages in the order of the menu, and the tuner view after the last
MenuCycle ==
    <<"menu_item_cal_enter", "menu_item_pitch_display_mode_numeric",
      "menu_item_pitch_display_mode_bar",
      "menu_item_pitch_display_mode_keyboard", "menu_item_concert_a_440",
      "menu_item_concert_a_445", "menu_item_concert_a_430",
      "menu_item_concert_a_432", "tuner_view">>
ShortPressIn(page) ==
    /\ ByteStep /\ ui_event'.byte = STATE_CMD_BUTTON_SHORT_PRESS
    /\ display_status = page
LongPressIn(page) ==
    /\ ByteStep /\ ui_event'.byte = STATE_CMD_BUTTON_LONG_PRESS
    /\ display_status = page

\* C35: starting in tuner_view, a long press enters the menu at the
\* calibration item, and each short press advances through the fixed order
\* calibration, numeric, bar, keyboard, A440, A445, A430, A432, with a short
\* press on the last item returning to tuner_view; short presses inside the
\* menu never change the view mode, the reference pitch or the persisted
\* settings and never send a command to the instrument.
C35_MenuOrder ==
    [][/\ LongPressIn("tuner_view") => display_status' = MenuCycle[1]
       /\ \A k \in 1 .. 8 :
            ShortPressIn(MenuCycle[k]) =>
                /\ display_status' = MenuCycle[k + 1]
                /\ UNCHANGED <<tuner_view_mode, concert_reference_a, eeprom,
                               to_theremin>>]_vars

\* C35 witness: a short press on the last item, A432, has returned to the
\* tuner view; the view mode is the one the EEPROM had at power-on
C35_Witness ==
    /\ board_pc = "switch" /\ ui_event.op = "byte"
    /\ ui_event.byte = STATE_CMD_BUTTON_SHORT_PRESS
    /\ ui_event.page = "menu_item_concert_a_432"
    /\ display_status = "tuner_view"
    /\ tuner_view_mode = "bar_graph" /\ concert_reference_a = A445
    /\ to_theremin = <<>>

(***************************************************************************)
(* The settings confirmed in the menu and read back by settings_read()     *)
(***************************************************************************)
\* The view mode and the reference a long press on the page confirms
ConfirmedMode(page) ==
    CASE page = "menu_item_pitch_display_mode_numeric" -> "numeric"
      [] page = "menu_item_pitch_display_mode_bar" -> "bar_graph"
      [] OTHER -> "piano_view"
ConfirmedRef(page) ==
    CASE page = "menu_item_concert_a_440" -> CONCERT_A_DEFAULT
      [] page = "menu_item_concert_a_445" -> A445
      [] page = "menu_item_concert_a_430" -> A430
      [] OTHER -> A432
ModePages == {MenuCycle[k] : k \in 2 .. 4}
RefPages == {MenuCycle[k] : k \in 5 .. 8}
\* A step of loop()
LoopStep == board_pc \in {"loop", "switch"} /\ board_pc' \in {"loop", "switch"}
\* settings_read() of the setup() that follows a power cycle
ReadAfterPowerCycle ==
    board_pc = "settings_read" /\ board_pc' = "begin" /\ ui_event.op = "power"

\* C36: a long press on a view-mode or concert-A menu item applies that
\* setting, persists it and returns to tuner_view, and the setting
\* round-trips: a settings_read performed after any sequence of menu actions
\* restores exactly the view mode and the reference pitch last confirmed by
\* long press.  The settings in force change in loop() by a confirming long
\* press only, and settings_read() after a power cycle restores the
\* settings that were in force before it.
C36_ConfirmRoundTrip ==
    [][/\ \A page \in ModePages :
            LongPressIn(page) =>
                /\ tuner_view_mode' = ConfirmedMode(page)
                /\ StoredMode(eeprom') = ConfirmedMode(page)
                /\ display_status' = "tuner_view"
                /\ UNCHANGED concert_reference_a
                /\ StoredRef(eeprom') = StoredRef(eeprom)
       /\ \A page \in RefPages :
            LongPressIn(page) =>
                /\ concert_reference_a' = ConfirmedRef(page)
                /\ StoredRef(eeprom') = ConfirmedRef(page)
                /\ display_status' = "tuner_view"
                /\ UNCHANGED tuner_view_mode
                /\ StoredMode(eeprom') = StoredMode(eeprom)
       /\ (LoopStep /\ tuner_view_mode' # tuner_view_mode)
            => \E page \in ModePages : LongPressIn(page)
       /\ (LoopStep /\ concert_reference_a' # concert_reference_a)
            => \E page \in RefPages : LongPressIn(page)
       /\ ReadAfterPowerCycle =>
            /\ tuner_view_mode' = ui_event.mode
            /\ concert_reference_a' = ui_event.ref]_vars

\* C36 witness: the numeric view and 432 Hz, which the EEPROM did not hold
\* at the first power-on, were confirmed, and settings_read() has restored
\* them after a power cycle
C36_Witness ==
    /\ board_pc = "begin" /\ ui_event.op = "power"
    /\ ui_event.mode = "numeric" /\ ui_event.ref = A432
    /\ tuner_view_mode = "numeric" /\ concert_reference_a = A432
    /\ eeprom = [a \in 0 .. 4 |-> (<<0>> \o A432)[a + 1]]

(***************************************************************************)
(* The temporary messages                                                  *)
(***************************************************************************)
SwitchStep == board_pc = "switch" /\ board_pc' = "loop"
MessageKinds == {"status_msg", "octave", "timbre"}
\* The text of a status, register or timbre message is on the display
MessageShown == parameter_display_status \in MessageKinds
\* More than 1800 ms have passed since the message was shown
MessageTimeUp == loop_ms - ui_event.since > UI_TEMPORARY_PARAMETER_DISPLAY_MS
Calibrating == theremin_state = "calibrating"
ReturnsToView == display_status' = "tuner_view" /\ pass'.op = "restore"
\* The press changes nothing and sends nothing
PressIgnored ==
    UNCHANGED <<display_status, parameter_display_status, theremin_state,
                parameter_value, blink_setting, settingVars, drvVars,
                to_theremin>>
\* The rules of a message, for the messages that satisfy which: it ends
\* after its time unless a calibration holds it, not before, and presses
\* are ignored while it is shown
MessageRules(which) ==
    /\ (SwitchStep /\ MessageShown /\ which /\ ~Calibrating /\ MessageTimeUp)
            => ReturnsToView
    /\ (SwitchStep /\ MessageShown /\ which /\ (Calibrating \/ ~MessageTimeUp))
            => display_status' # "tuner_view" /\ MessageShown'
    /\ (ByteStep /\ MessageShown /\ which /\ ui_event'.byte \in PressBytes)
            => PressIgnored
\* The message of a calibration error is shown
ErrorShown == MessageShown /\ ui_event.msg = STATE_CMD_CALIBRATION_ERROR
\* The rules of the message of a calibration error: the page is the
\* calibration item of the menu, the message does not end, and a press is a
\* menu action
ErrorRules ==
    /\ ErrorShown => display_status = "menu_item_cal_enter"
    /\ (SwitchStep /\ ErrorShown) => UNCHANGED <<display_status, drvVars>>
    /\ (ByteStep /\ ErrorShown
            /\ ui_event'.byte = STATE_CMD_BUTTON_SHORT_PRESS)
            => display_status' = "menu_item_pitch_display_mode_numeric"
    /\ (ByteStep /\ ErrorShown
            /\ ui_event'.byte = STATE_CMD_BUTTON_LONG_PRESS)
            => to_theremin' = Append(to_theremin, STATE_CMD_CALIBRATION)

\* C37: after a temporary status, register or timbre message is shown, if
\* the mirrored instrument state is not calibrating and no further byte
\* arrives, the display returns to tuner_view and redraws it once more than
\* 1800 ms have elapsed; while the mirrored state is calibrating the message
\* stays until a calibration success or error byte arrives, and button
\* events received during a temporary message are ignored.
C37_EveryMessageTemporary == [][MessageRules(TRUE)]_vars

\* C37 as it holds: the rules hold for every message but the one of a
\* calibration error, CALER, which leaves the display on the calibration
\* item of the menu: it stays until a press, and a press is a menu action.
C37_TemporaryUnlessError ==
    [][/\ MessageRules(~ErrorShown)
       /\ ErrorRules]_vars

\* C37 witness: the message MUTED was shown at 0 ms and the iteration at
\* 1801 ms has redrawn the tuner view
C37_Witness ==
    /\ board_pc = "loop" /\ ui_event.op = "done"
    /\ ui_event.msg = STATE_CMD_MUTE /\ ui_event.since = 0
    /\ loop_ms = 1801
    /\ display_status = "tuner_view" /\ parameter_display_status = "none"
    /\ pass.op = "restore" /\ pass.prev = "text"

\* Where C37 fails: CALER was shown at 0 ms and is still there at 1801 ms,
\* the page being the calibration item of the menu
C37_ErrorStays ==
    /\ board_pc = "loop" /\ ErrorShown /\ ui_event.since = 0
    /\ loop_ms = 1801 /\ theremin_state = "muted"
    /\ display_status = "menu_item_cal_enter"

\* C39: for every sequence of bytes the display receives, the display blink
\* mode is BLINK_1Hz only while the mirrored instrument state is
\* calibrating; whenever the mirrored state is muted or playing, blinking
\* is off.
C39_BlinkOnlyCalibrating ==
    theremin_state \in {"muted", "playing"} => blink_setting = "BLINK_OFF"

\* What holds of the blinking: it is on while the mirrored state is
\* calibrating, and when it is on the mirrored state is not calibrating
\* only after a mute or unmute byte
C39_BlinkWhileCalibrating ==
    /\ theremin_state = "calibrating" => blink_setting = "BLINK_1Hz"
    /\ (blink_setting = "BLINK_1Hz" /\ theremin_state # "calibrating")
            => ui_event.msg \in {STATE_CMD_MUTE, STATE_CMD_UNMUTE,
                                 STATE_CMD_REGISTER_LOW,
                                 STATE_CMD_WAVEFORM_BASE + 3}

\* Where C39 fails: the byte of a calibration, then the byte of a mute; the
\* message MUTED has ended and the tuner view blinks
C39_MutedAndBlinking ==
    /\ board_pc = "loop" /\ theremin_state = "muted"
    /\ blink_setting = "BLINK_1Hz"
    /\ ui_event.msg = STATE_CMD_MUTE
    /\ display_status = "tuner_view"

(***************************************************************************)
(* ui.cpp of the instrument: ui_do_loop(), one action an iteration, and    *)
(* the two boards on the serial line.                                      *)
(***************************************************************************)
\* ui_button_action(): the state of the button and the byte written;
\* pressed is HW_BUTTON_PRESSED, expired is timerExpired(...)
ButtonAfter(pressed, expired) ==
    IF button_state = "button_state_t_released"
    THEN (IF pressed THEN "button_state_t_long_press_wait"
          ELSE "button_state_t_released")
    ELSE (IF ~pressed \/ expired THEN "button_state_t_released"
          ELSE "button_state_t_long_press_wait")
ButtonByte(pressed, expired) ==
    IF button_state = "button_state_t_released" THEN <<>>
    ELSE IF ~pressed THEN <<STATE_CMD_BUTTON_SHORT_PRESS>>
    ELSE IF expired THEN <<STATE_CMD_BUTTON_LONG_PRESS>>
    ELSE <<>>
\* The commands of the switch in ui_do_loop()
Commands == {STATE_CMD_CALIBRATION, STATE_CMD_MUTE, STATE_CMD_UNMUTE}
\* Mutant of Applied: a mute command leaves the state as it is.
AppliedButMute(b, success) ==
    IF b = STATE_CMD_UNMUTE THEN "playing"
    ELSE IF b = STATE_CMD_CALIBRATION
    THEN (IF success THEN "playing" ELSE "calibrating")
    ELSE instrument_state
\* _theremin_state after the command b; success is what calibration_start()
\* returns
Applied(b, success) ==
    IF b = STATE_CMD_MUTE THEN "muted"
    ELSE IF b = STATE_CMD_UNMUTE THEN "playing"
    ELSE IF b = STATE_CMD_CALIBRATION
    THEN (IF success THEN "playing" ELSE "calibrating")
    ELSE instrument_state
\* ui_do_loop(): the byte received, if any, is applied and echoed; then
\* ui_button_action(); then ui_potis_read_all(), which writes debug text
\* when a potentiometer has moved
ui_do_loop(pressed, expired, success, moved) ==
    LET avail == to_theremin # <<>>
        b     == Head(to_theremin)
    IN  /\ to_theremin' = IF avail THEN Tail(to_theremin) ELSE to_theremin
        /\ instrument_state' =
                IF avail THEN Applied(b, success) ELSE instrument_state
        /\ button_state' = ButtonAfter(pressed, expired)
        /\ to_display' =
                to_display
                    \o (IF avail /\ b \in Commands THEN <<b>> ELSE <<>>)
                    \o ButtonByte(pressed, expired)
                    \o (IF moved THEN <<DEBUG_TEXT>> ELSE <<>>)

\* Bytes in flight at most
MaxInFlight == 2
InFlight == Len(to_theremin) + Len(to_display)
LinkSteps == {0, 1801}

\* The instrument runs an iteration: the button is up or down and no press
\* lasts long enough for a long press, a potentiometer may have moved
InstrumentLoop(pressed, moved) ==
    /\ board_pc = "loop"
    /\ (pressed \/ moved) => InFlight < MaxInFlight
    /\ ui_do_loop(pressed, FALSE, TRUE, moved)
    /\ UNCHANGED <<freqVars, drvVars, ram, probe, display_status, loopVars,
                   settingVars, board_pc, wire_begun, ui_event>>
\* The display runs the first half of an iteration
DisplayReads ==
    /\ \E dt \in LinkSteps :
            LoopRead(IF to_display = <<>> THEN NO_BYTE ELSE Head(to_display),
                     dt)
    /\ to_display' = IF to_display = <<>> THEN <<>> ELSE Tail(to_display)
    /\ UNCHANGED <<instrument_state, button_state>>
\* and the second half
DisplaySwitches ==
    /\ \E t \in LoopTones : LoopSwitch(t)
    /\ UNCHANGED lineVars

InitLink == InitUI
NextLink ==
    \/ \E pressed \in BOOLEAN : InstrumentLoop(pressed, FALSE)
    \/ InstrumentLoop(FALSE, TRUE)
    \/ DisplayReads
    \/ DisplaySwitches
SpecLink == InitLink /\ [][NextLink]_vars

\* Every byte written has been read
Delivered == to_theremin = <<>> /\ to_display = <<>>

\* C38: for mute/unmute exchanges between the two boards (a short press in
\* tuner_view sends UNMUTE when the mirrored state is muted and MUTE when it
\* is playing, the instrument applies and echoes each command in order, and
\* the display changes its mirrored state only on an echo), whenever all
\* in-flight bytes have been delivered the display's mirrored state equals
\* the instrument's state, for every interleaving of button presses and
\* message deliveries.
C38_MirrorAgrees == Delivered => theremin_state = instrument_state

\* C38 witness: an unmute and, after its message has ended, a mute have been
\* exchanged; every byte is delivered and both boards say muted
C38_Witness ==
    /\ Delivered /\ ui_event.msg = STATE_CMD_MUTE
    /\ ui_event.since = 1801
    /\ theremin_state = "muted" /\ instrument_state = "muted"
    /\ display_status = "parameter_change_view_temporary_wait"

=============================================================================
